---- MODULE Spec2Model ----
(***************************************************************************)
(* A model of the OEF Python SDK: the in-process broker                    *)
(* (OEFLocalProxy.LocalNode), the local and the networked proxy, the       *)
(* agent dispatch loop and the dialogue agent.                             *)
(***************************************************************************)
EXTENDS Integers, Sequences, FiniteSets, TLC

(***************************************************************************)
(* Bounds of the model.                                                    *)
(***************************************************************************)
\* number of agent messages submitted to the local broker in one behaviour
\* of the routing specification and of the ordering specification
MaxRouted == 1
MaxOrdered == 2
\* number of service descriptions registered at a time
MaxServices == 2
\* number of search results waiting on the mailboxes
MaxResults == 1
\* frames of operations written to, and of messages read from, one transport
MaxFrames == 1
\* messages dispatched to the dialogue agent
MaxInbound == 4
\* messages dispatched to a dialogue agent whose sessions are of any class
MaxDispatched == 2

(***************************************************************************)
(* Values.                                                                 *)
(***************************************************************************)
\* Python's None, for references to queues (queue handles are 1, 2, ...)
NoQueue == 0

\* the local proxies and the public key each was constructed with;
\* p1 and p2 share a public key
Proxies == {"p1", "p2", "p3"}
PublicKeyOf(p) == IF p = "p3" THEN "b" ELSE "a"

\* the identifiers a message can be addressed to; no proxy owns "c"
Keys == {"a", "b", "c"}

\* the payloads of the five agent messages:
\* Message carries bytes, CFP carries None, bytes or a Query,
\* Propose carries bytes or a list of descriptions
NoBody == [case |-> "", value |-> ""]
CfpNothing == [case |-> "nothing", value |-> ""]
CfpContent == [case |-> "content", value |-> "hello"]
ProposeContent == [case |-> "content", value |-> "hello"]
ProposeProposals == [case |-> "proposals", value |-> "ds"]

VARIABLES
    queues,          \* LocalNode._queues: public key -> handle of its mailbox
    mailbox,         \* the content of each mailbox queue, by handle
    read_queue,      \* LocalNode._read_queue: the intake queue
    node_task,       \* LocalNode._task: the broker's processing loop
    agents,          \* LocalNode.agents: the agent directory, in insertion order
    services,        \* LocalNode.services: the service directory, in insertion order
    lock,            \* LocalNode._lock is held
    proxy,           \* per local proxy: _connection, _read_queue, _write_queue
    agent_task,      \* per agent: Agent._task and what its loop waits on
    received,        \* per agent: the handler invocations, in order
    ret,             \* the outcome of the last call that returned a value or raised
    sent,            \* number of agent messages submitted so far
    h_intake,        \* history: submission number of each intake entry
    h_mailbox,       \* history: submission number of each mailbox entry
    h_received,      \* history: submission number of each handler invocation
    net,             \* the OEFNetworkProxy: _connection, _server_reader, _server_writer
    net_pc,          \* where the connect() of the network proxy is suspended
    wire,            \* what was written to and read from the current transport
    net_task,        \* Agent._task of the network agent
    handshaken,      \* history: the last handshake ended with status true
    dialogues,       \* DialogueAgent.dialogues: key -> session
    dlg_task,        \* the task of the loop of the dialogue agent
    dlg_inbound,     \* history: the handler calls dispatched to the dialogue agent
    dlg_created,     \* history: the key of each session constructed by a hook
    dlg_calls,       \* history: the hooks and session handlers invoked, in order
    group,           \* the GroupDialogues of the dialogue agent
    group_sent,      \* history: the messages sent by the sessions of the group
    group_updates,   \* history: the calls of GroupDialogues.update
    group_finished,  \* history: the number of calls of GroupDialogues.finished
    loop_agent,      \* the class of the agent handed to OEFProxy.loop
    loop_inbox,      \* the inbound envelopes the proxy has not read yet
    loop_task,       \* Agent._task of the agent run by OEFProxy.loop
    loop_calls,      \* the handler invocations made by the loop, in order
    loop_log,        \* the records logged about the envelopes, by the loop and the handlers
    loop_arrived,    \* history: per arrived envelope, the call its sender expects
    rx_flight,       \* the bytes the node has written that the transport has not delivered
    rx_buffer,       \* StreamReader._buffer: the bytes delivered and not read yet
    rx_pc,           \* where the loop of the network agent is suspended in _receive
    rx_nbytes,       \* nbytes of the _receive in progress
    rx_data,         \* data of the _receive in progress
    rx_out,          \* the messages _receive has returned to the loop, in order
    rx_sent,         \* history: the payloads of the frames the node has written
    rx_eof,          \* the peer has closed the connection: the reader is at its end
    api_call,        \* the last call of a constructor, check or codec, with its arguments
    api_ret,         \* what that call returned or raised
    tx_task,         \* per application task: where it is in _send, and the message it sends
    tx_bytes,        \* the bytes the outbound calls have written to the transport, in order
    tx_calls         \* history: the outbound calls that reached the writer, in call order

routeVars == <<queues, mailbox, read_queue, node_task, proxy, agent_task,
               received, ret, sent, h_intake, h_mailbox, h_received>>

directoryVars == <<agents, services, lock>>

localVars == <<routeVars, directoryVars>>

netVars == <<net, net_pc, wire, net_task, handshaken>>

dlgVars == <<dialogues, dlg_task, dlg_inbound, dlg_created, dlg_calls>>

groupVars == <<group, group_sent, group_updates, group_finished>>

loopVars == <<loop_agent, loop_inbox, loop_task, loop_calls, loop_log, loop_arrived>>

rxVars == <<rx_flight, rx_buffer, rx_pc, rx_nbytes, rx_data, rx_out, rx_sent, rx_eof>>

apiVars == <<api_call, api_ret>>

txVars == <<tx_task, tx_bytes, tx_calls>>

\* what the operations of the network proxy leave alone; ret is shared
notNetVars == <<queues, mailbox, read_queue, node_task, proxy, agent_task, received, sent,
                h_intake, h_mailbox, h_received, directoryVars, dlgVars, groupVars,
                loopVars, rxVars, apiVars, txVars>>

\* what the handlers of the dialogue agent leave alone; ret is shared
notDlgVars == <<queues, mailbox, read_queue, node_task, proxy, agent_task, received, sent,
                h_intake, h_mailbox, h_received, directoryVars, netVars, groupVars,
                loopVars, rxVars, apiVars, txVars>>

\* what the group of dialogues and its sessions leave alone; ret is shared
notGroupVars == <<queues, mailbox, read_queue, node_task, proxy, agent_task, received, sent,
                  h_intake, h_mailbox, h_received, directoryVars, netVars,
                  dlg_inbound, dlg_created, dlg_calls, loopVars, rxVars,
                  apiVars, txVars>>

\* what the operations of the local proxy and of the local broker leave alone
notLocalVars == <<netVars, dlgVars, groupVars, loopVars, rxVars, apiVars, txVars>>

\* what the connection, routing and dispatch operations of the local proxy
\* and of the local broker leave alone
notRouteVars == <<directoryVars, notLocalVars>>

\* what the dispatch loop of one proxy and the handlers of its agent leave alone
notLoopVars == <<localVars, netVars, dlgVars, groupVars, rxVars, apiVars, txVars>>

\* what _receive of the network proxy and the transport under it leave alone
notRxVars == <<localVars, netVars, dlgVars, groupVars, loopVars, apiVars, txVars>>

\* what the constructors, checks and codecs of oef.query and oef.schema leave alone
notApiVars == <<localVars, netVars, dlgVars, groupVars, loopVars, rxVars, txVars>>

\* what the writes of _send leave alone besides the network proxy; ret is shared
notTxVars == <<queues, mailbox, read_queue, node_task, proxy, agent_task, received, sent,
               h_intake, h_mailbox, h_received, directoryVars, dlgVars, groupVars,
               loopVars, rxVars, apiVars>>

vars == <<localVars, netVars, dlgVars, groupVars, loopVars, rxVars, apiVars, txVars>>

(***************************************************************************)
(* oef.query: relations over typed values, constraints and queries.        *)
(***************************************************************************)
\* a value with its Python type; values of different types never compare
IntValue(v) == [type |-> "int", int |-> v]
StrValue(v) == [type |-> "str", str |-> v]
BoolValue(v) == [type |-> "bool", bool |-> v]
FloatValue(v) == [type |-> "float", float |-> v]
LocationValue(latitude, longitude) ==
    [type |-> "Location", location |-> [latitude |-> latitude, longitude |-> longitude]]

PyValue(value) ==
    CASE value.type = "int" -> value.int
      [] value.type = "str" -> value.str
      [] value.type = "bool" -> value.bool
      [] value.type = "float" -> value.float
      [] value.type = "Location" -> value.location

Eq(v) == [relation |-> "Eq", value |-> v]
NotEq(v) == [relation |-> "NotEq", value |-> v]
Lt(v) == [relation |-> "Lt", value |-> v]
LtEq(v) == [relation |-> "LtEq", value |-> v]
Gt(v) == [relation |-> "Gt", value |-> v]
GtEq(v) == [relation |-> "GtEq", value |-> v]

\* Range of a pair of values; In and NotIn of a list of values; Distance
\* of a center and a distance
Range(values) == [range |-> values]
Distance(center, distance) == [center |-> center, distance |-> distance]
In(values) == [set |-> "In", values |-> values]
NotIn(values) == [set |-> "NotIn", values |-> values]

\* the subexpressions of a query
And(constraints) == [and |-> constraints]
Or(constraints) == [or |-> constraints]
Not(constraint) == [not |-> constraint]

Constraint(attribute_name, constraint) ==
    [attribute_name |-> attribute_name, constraint |-> constraint]

Query(constraints) == [constraints |-> constraints]

Description(values) == [values |-> values]

\* Relation._get_type
RelationGetType(constraint) == constraint.value.type

\* Range._get_type
RangeGetType(constraint) == constraint.range[1].type

\* Set._get_type: the type of the first value, None when there is no value
SetGetType(constraint) ==
    IF Len(constraint.values) > 0 THEN constraint.values[1].type ELSE "None"

\* ConstraintType._get_type of the concrete constraint type
GetType(constraint) ==
    IF "relation" \in DOMAIN constraint THEN RelationGetType(constraint)
    ELSE IF "range" \in DOMAIN constraint THEN RangeGetType(constraint)
    ELSE IF "set" \in DOMAIN constraint THEN SetGetType(constraint)
    ELSE "Location"

\* the strings of the model, in the order of str
Strings == <<"BAR", "a", "b">>

\* the place of a value in the natural order of its type
Key(value) ==
    CASE value.type = "str" -> CHOOSE i \in DOMAIN Strings : Strings[i] = value.str
      [] value.type = "bool" -> IF value.bool THEN 1 ELSE 0
      [] OTHER -> PyValue(value)

\* Eq.check .. GtEq.check, on a value of the type of the relation
RelationCheck(constraint, value) ==
    CASE constraint.relation = "Eq" -> PyValue(value) = PyValue(constraint.value)
      [] constraint.relation = "NotEq" -> PyValue(value) # PyValue(constraint.value)
      [] constraint.relation = "Lt" -> Key(value) < Key(constraint.value)
      [] constraint.relation = "LtEq" -> Key(value) <= Key(constraint.value)
      [] constraint.relation = "Gt" -> Key(value) > Key(constraint.value)
      [] constraint.relation = "GtEq" -> Key(value) >= Key(constraint.value)

\* Range.check
RangeCheck(constraint, value) ==
    Key(constraint.range[1]) <= Key(value) /\ Key(value) <= Key(constraint.range[2])

\* In.check and NotIn.check
SetCheck(constraint, value) ==
    LET member == \E i \in DOMAIN constraint.values : constraint.values[i] = value
    IN  IF constraint.set = "In" THEN member ELSE ~member

\* ConstraintType.check of the concrete constraint type, for the relations,
\* ranges and sets
ConstraintTypeCheck(constraint, value) ==
    IF "relation" \in DOMAIN constraint THEN RelationCheck(constraint, value)
    ELSE IF "range" \in DOMAIN constraint THEN RangeCheck(constraint, value)
    ELSE SetCheck(constraint, value)

\* Constraint.check: None is the type of no value
ConstraintCheck(c, description) ==
    IF c.attribute_name \notin DOMAIN description.values
    THEN FALSE
    ELSE LET value == description.values[c.attribute_name]
         IN  IF value.type # GetType(c.constraint)
             THEN FALSE
             ELSE ConstraintTypeCheck(c.constraint, value)

\* Query.check
QueryCheck(query, description) ==
    \A i \in DOMAIN query.constraints : ConstraintCheck(query.constraints[i], description)

\* the descriptions the agents register and the queries they search with
Descriptions ==
    {Description([foo |-> IntValue(15), bar |-> StrValue("BAR")]),
     Description([foo |-> IntValue(5)])}

Queries ==
    {Query(<<Constraint("foo", Gt(IntValue(10)))>>),
     Query(<<Constraint("foo", GtEq(IntValue(5))), Constraint("foo", NotEq(IntValue(0)))>>)}

\* Location.to_pb and Location.from_pb
LocationToPb(value) == [lat |-> value.location.latitude, lon |-> value.location.longitude]
LocationFromPb(location_pb) == LocationValue(location_pb.lat, location_pb.lon)

\* the field of Query.Value a value is written to: bool is tried before int
QueryValue(value) ==
    CASE value.type = "bool" -> [b |-> value.bool]
      [] value.type = "int" -> [i |-> value.int]
      [] value.type = "float" -> [d |-> value.float]
      [] value.type = "str" -> [s |-> value.str]
      [] value.type = "Location" -> [l |-> LocationToPb(value)]

\* the value of the Python type of the field of Query.Value that is set
ValueOf(query_value) ==
    IF "s" \in DOMAIN query_value THEN StrValue(query_value.s)
    ELSE IF "b" \in DOMAIN query_value THEN BoolValue(query_value.b)
    ELSE IF "i" \in DOMAIN query_value THEN IntValue(query_value.i)
    ELSE IF "d" \in DOMAIN query_value THEN FloatValue(query_value.d)
    ELSE LocationFromPb(query_value.l)

\* Relation.to_pb: the operator of the class and the value in the field of
\* its Python type
RelationToPb(constraint) ==
    [op |-> CASE constraint.relation = "Eq" -> "EQ"
              [] constraint.relation = "NotEq" -> "NOTEQ"
              [] constraint.relation = "Lt" -> "LT"
              [] constraint.relation = "LtEq" -> "LTEQ"
              [] constraint.relation = "Gt" -> "GT"
              [] constraint.relation = "GtEq" -> "GTEQ",
     val |-> QueryValue(constraint.value)]

\* Relation.from_pb
RelationFromPb(relation) ==
    LET value == ValueOf(relation.val)
    IN  CASE relation.op = "GTEQ" -> GtEq(value)
          [] relation.op = "GT" -> Gt(value)
          [] relation.op = "LTEQ" -> LtEq(value)
          [] relation.op = "LT" -> Lt(value)
          [] relation.op = "NOTEQ" -> NotEq(value)
          [] relation.op = "EQ" -> Eq(value)

\* Range.to_pb: the pair in the field of the type of its first value
RangeToPb(constraint) ==
    LET pair == [first |-> PyValue(constraint.range[1]),
                 second |-> PyValue(constraint.range[2])]
    IN  CASE constraint.range[1].type = "str" -> [s |-> pair]
          [] constraint.range[1].type = "int" -> [i |-> pair]
          [] constraint.range[1].type = "float" -> [d |-> pair]
          [] constraint.range[1].type = "Location" ->
                 [l |-> [first |-> LocationToPb(constraint.range[1]),
                         second |-> LocationToPb(constraint.range[2])]]

\* Range.from_pb
RangeFromPb(range_pb) ==
    IF "s" \in DOMAIN range_pb
    THEN Range(<<StrValue(range_pb.s.first), StrValue(range_pb.s.second)>>)
    ELSE IF "i" \in DOMAIN range_pb
    THEN Range(<<IntValue(range_pb.i.first), IntValue(range_pb.i.second)>>)
    ELSE IF "d" \in DOMAIN range_pb
    THEN Range(<<FloatValue(range_pb.d.first), FloatValue(range_pb.d.second)>>)
    ELSE Range(<<LocationFromPb(range_pb.l.first), LocationFromPb(range_pb.l.second)>>)

\* the list of the Python values of a list of values
Vals(values) == [i \in DOMAIN values |-> PyValue(values[i])]

\* Set.to_pb: the values in the list of the type of the first one, of strings
\* when there is none
SetToPb(constraint) ==
    LET value_type == IF Len(constraint.values) > 0
                      THEN constraint.values[1].type
                      ELSE "str"
    IN  [op |-> IF constraint.set = "In" THEN "IN" ELSE "NOTIN",
         vals |-> CASE value_type = "str" -> [s |-> Vals(constraint.values)]
                    [] value_type = "bool" -> [b |-> Vals(constraint.values)]
                    [] value_type = "int" -> [i |-> Vals(constraint.values)]
                    [] value_type = "float" -> [d |-> Vals(constraint.values)]
                    [] value_type = "Location" ->
                           [l |-> [i \in DOMAIN constraint.values |->
                                      LocationToPb(constraint.values[i])]]]

\* Set.from_pb
SetFromPb(set_pb) ==
    LET values ==
            IF "s" \in DOMAIN set_pb.vals
            THEN [i \in DOMAIN set_pb.vals.s |-> StrValue(set_pb.vals.s[i])]
            ELSE IF "b" \in DOMAIN set_pb.vals
            THEN [i \in DOMAIN set_pb.vals.b |-> BoolValue(set_pb.vals.b[i])]
            ELSE IF "i" \in DOMAIN set_pb.vals
            THEN [i \in DOMAIN set_pb.vals.i |-> IntValue(set_pb.vals.i[i])]
            ELSE IF "d" \in DOMAIN set_pb.vals
            THEN [i \in DOMAIN set_pb.vals.d |-> FloatValue(set_pb.vals.d[i])]
            ELSE [i \in DOMAIN set_pb.vals.l |-> LocationFromPb(set_pb.vals.l[i])]
    IN  IF set_pb.op = "IN" THEN In(values) ELSE NotIn(values)

\* Distance.to_pb and Distance.from_pb
DistanceToPb(constraint) ==
    [distance |-> constraint.distance, center |-> LocationToPb(constraint.center)]

DistanceFromPb(distance_pb) ==
    Distance(LocationFromPb(distance_pb.center), distance_pb.distance)

\* Constraint.to_pb
ConstraintToPb(c) ==
    IF "relation" \in DOMAIN c.constraint
    THEN [attribute_name |-> c.attribute_name,
          constraint_case |-> "relation",
          relation |-> RelationToPb(c.constraint)]
    ELSE IF "range" \in DOMAIN c.constraint
    THEN [attribute_name |-> c.attribute_name,
          constraint_case |-> "range_",
          range_ |-> RangeToPb(c.constraint)]
    ELSE IF "set" \in DOMAIN c.constraint
    THEN [attribute_name |-> c.attribute_name,
          constraint_case |-> "set_",
          set_ |-> SetToPb(c.constraint)]
    ELSE [attribute_name |-> c.attribute_name,
          constraint_case |-> "distance",
          distance |-> DistanceToPb(c.constraint)]

\* Constraint.from_pb
ConstraintFromPb(constraint_pb) ==
    Constraint(constraint_pb.attribute_name,
               CASE constraint_pb.constraint_case = "relation" ->
                        RelationFromPb(constraint_pb.relation)
                 [] constraint_pb.constraint_case = "set_" ->
                        SetFromPb(constraint_pb.set_)
                 [] constraint_pb.constraint_case = "range_" ->
                        RangeFromPb(constraint_pb.range_)
                 [] constraint_pb.constraint_case = "distance" ->
                        DistanceFromPb(constraint_pb.distance))

\* Query.to_pb, of a query without a data model
QueryToPb(query) ==
    [constraints |-> [i \in DOMAIN query.constraints |-> ConstraintToPb(query.constraints[i])],
     has_model |-> FALSE]

\* Query.from_pb
QueryFromPb(query) ==
    Query([i \in DOMAIN query.constraints |-> ConstraintFromPb(query.constraints[i])])

(***************************************************************************)
(* oef.messages: the agent messages and their envelopes.                   *)
(***************************************************************************)
Message(msg_id, dialogue_id, destination, msg) ==
    [type |-> "Message", msg_id |-> msg_id, dialogue_id |-> dialogue_id,
     destination |-> destination, target |-> 0,
     body |-> [case |-> "content", value |-> msg]]

CFP(msg_id, dialogue_id, destination, target, query) ==
    [type |-> "CFP", msg_id |-> msg_id, dialogue_id |-> dialogue_id,
     destination |-> destination, target |-> target, body |-> query]

Propose(msg_id, dialogue_id, destination, target, proposals) ==
    [type |-> "Propose", msg_id |-> msg_id, dialogue_id |-> dialogue_id,
     destination |-> destination, target |-> target, body |-> proposals]

Accept(msg_id, dialogue_id, destination, target) ==
    [type |-> "Accept", msg_id |-> msg_id, dialogue_id |-> dialogue_id,
     destination |-> destination, target |-> target, body |-> NoBody]

Decline(msg_id, dialogue_id, destination, target) ==
    [type |-> "Decline", msg_id |-> msg_id, dialogue_id |-> dialogue_id,
     destination |-> destination, target |-> target, body |-> NoBody]

\* a CFP query that is a Query, and one that is neither None, a Query nor
\* bytes (a str)
CfpQuery == [case |-> "query", value |-> Query(<<Constraint("foo", Eq(IntValue(0)))>>)]
CfpText == [case |-> "str", value |-> "hello"]

\* the default (unset) value of a fipa sub-message
NoFipa == [target |-> 0, msg |-> "", body |-> NoBody]

\* fipa_pb2.Fipa.Cfp built by CFP.to_envelope: the payload is set for None,
\* for a Query and for bytes, and left unset for anything else
CfpPayload(query) ==
    CASE query.case = "nothing" -> [case |-> "nothing", value |-> ""]
      [] query.case = "query" -> [case |-> "query", value |-> QueryToPb(query.value)]
      [] query.case = "content" -> [case |-> "content", value |-> query.value]
      [] OTHER -> NoBody

\* fipa_pb2.Fipa.Message built by CFP/Propose/Accept/Decline.to_envelope
FipaOf(msg) ==
    [target |-> msg.target,
     msg |-> CASE msg.type = "CFP" -> "cfp"
               [] msg.type = "Propose" -> "propose"
               [] msg.type = "Accept" -> "accept"
               [] msg.type = "Decline" -> "decline",
     body |-> IF msg.type = "CFP" THEN CfpPayload(msg.body) ELSE msg.body]

\* AgentMessage.to_envelope
ToEnvelope(msg) ==
    [msg_id |-> msg.msg_id,
     send_message |->
        IF msg.type = "Message"
        THEN [dialogue_id |-> msg.dialogue_id, destination |-> msg.destination,
              payload |-> "content", content |-> msg.body.value, fipa |-> NoFipa]
        ELSE [dialogue_id |-> msg.dialogue_id, destination |-> msg.destination,
              payload |-> "fipa", content |-> "", fipa |-> FipaOf(msg)]]

\* the agent messages an agent submits, one of each class, to destination k
AgentMessages(k) ==
    {Message(0, 1, k, "hello"),
     CFP(1, 0, k, 0, CfpNothing),
     Propose(2, 0, k, 1, ProposeProposals),
     Accept(3, 0, k, 2),
     Decline(3, 1, k, 2)}

(***************************************************************************)
(* agent_pb2.Server.AgentMessage: what the broker puts on a mailbox.       *)
(***************************************************************************)
NoContent == [origin |-> "", dialogue_id |-> 0, payload |-> "", content |-> "", fipa |-> NoFipa]

\* the relayed message with the destination in the place of the origin
RelayedMessageToOrigin(origin, msg) ==
    LET e == ToEnvelope(msg)
        payload == e.send_message.payload
    IN  [answer_id |-> msg.msg_id,
         payload |-> "content",
         content |-> [origin |-> e.send_message.destination,
                      dialogue_id |-> e.send_message.dialogue_id,
                      payload |-> payload,
                      content |-> IF payload = "content" THEN e.send_message.content ELSE "",
                      fipa |-> IF payload = "fipa" THEN e.send_message.fipa ELSE NoFipa],
         agents |-> <<>>]

\* the message built by LocalNode._send_agent_message
RelayedMessage(origin, msg) ==
    LET e == ToEnvelope(msg)
        payload == e.send_message.payload
    IN  [answer_id |-> msg.msg_id,
         payload |-> "content",
         content |-> [origin |-> origin,
                      dialogue_id |-> e.send_message.dialogue_id,
                      payload |-> payload,
                      content |-> IF payload = "content" THEN e.send_message.content ELSE "",
                      fipa |-> IF payload = "fipa" THEN e.send_message.fipa ELSE NoFipa],
         agents |-> <<>>]

\* the message built by LocalNode._send_search_result
SearchResultMessage(search_id, result) ==
    [answer_id |-> search_id, payload |-> "agents", content |-> NoContent, agents |-> result]

(***************************************************************************)
(* OEFProxy.loop: the handler invoked for one inbound message.             *)
(***************************************************************************)
NoCall == [handler |-> "", args |-> <<>>]

\* the exception the loop raises on a CFP whose payload is not set
QueryTypeNotValid == [handler |-> "raise", args |-> <<"Query type not valid.">>]

\* the operations of OEFErrorOperation
OEFErrorOperations == 0..3

\* Server.AgentMessage with the payload oef_error
OEFErrorMessage(answer_id, operation) ==
    [answer_id |-> answer_id, payload |-> "oef_error", content |-> NoContent,
     agents |-> <<>>, oef_error |-> [operation |-> operation]]

\* Server.AgentMessage with the payload dialogue_error
DialogueErrorMessage(answer_id, dialogue_id, origin) ==
    [answer_id |-> answer_id, payload |-> "dialogue_error", content |-> NoContent,
     agents |-> <<>>, dialogue_error |-> [dialogue_id |-> dialogue_id, origin |-> origin]]

\* a loop that hands None to on_cfp whatever the payload
CfpQueryDiscarded(cfp) == CfpNothing

\* the query handed to on_cfp for a CFP payload that is set
CfpQueryOf(cfp) ==
    CASE cfp.case = "nothing" -> CfpNothing
      [] cfp.case = "content" -> [case |-> "content", value |-> cfp.value]
      [] cfp.case = "query" -> [case |-> "query", value |-> QueryFromPb(cfp.value)]

\* the proposals handed to on_propose: the bytes, or else the descriptions
ProposalsOf(propose) ==
    IF propose.case = "content"
    THEN [case |-> "content", value |-> propose.value]
    ELSE [case |-> "proposals", value |-> propose.value]

Dispatch(msg) ==
    IF msg.payload = "agents"
    THEN [handler |-> "on_search_result", args |-> <<msg.answer_id, msg.agents>>]
    ELSE IF msg.payload = "oef_error"
    THEN [handler |-> "on_oef_error", args |-> <<msg.answer_id, msg.oef_error.operation>>]
    ELSE IF msg.payload = "dialogue_error"
    THEN [handler |-> "on_dialogue_error",
          args |-> <<msg.answer_id, msg.dialogue_error.dialogue_id,
                     msg.dialogue_error.origin>>]
    ELSE IF msg.payload = "content"
    THEN IF msg.content.payload = "content"
         THEN [handler |-> "on_message",
               args |-> <<msg.answer_id, msg.content.dialogue_id, msg.content.origin,
                          msg.content.content>>]
         ELSE IF msg.content.payload = "fipa"
         THEN LET fipa == msg.content.fipa
              IN  IF fipa.msg = "cfp"
                  THEN IF fipa.body.case \in {"nothing", "content", "query"}
                       THEN [handler |-> "on_cfp",
                             args |-> <<msg.answer_id, msg.content.dialogue_id,
                                        msg.content.origin, fipa.target,
                                        CfpQueryOf(fipa.body)>>]
                       ELSE QueryTypeNotValid
                  ELSE IF fipa.msg = "propose"
                  THEN [handler |-> "on_propose",
                        args |-> <<msg.answer_id, msg.content.dialogue_id, msg.content.origin,
                                   fipa.target, ProposalsOf(fipa.body)>>]
                  ELSE IF fipa.msg = "accept"
                  THEN [handler |-> "on_accept",
                        args |-> <<msg.answer_id, msg.content.dialogue_id, msg.content.origin,
                                   fipa.target>>]
                  ELSE IF fipa.msg = "decline"
                  THEN [handler |-> "on_decline",
                        args |-> <<msg.answer_id, msg.content.dialogue_id, msg.content.origin,
                                   fipa.target>>]
                  ELSE NoCall
         ELSE NoCall
    ELSE NoCall

(***************************************************************************)
(* Initial state: a LocalNode and the local agents, just constructed.      *)
(***************************************************************************)
NoRet == [op |-> "", who |-> "", result |-> ""]
Ret(op, who, result) == [op |-> op, who |-> who, result |-> result]

NoTask == [state |-> "None", queue |-> NoQueue]

InitLocal ==
    /\ queues = <<>>
    /\ mailbox = <<>>
    /\ read_queue = <<>>
    /\ node_task = "None"
    /\ agents = <<>>
    /\ services = <<>>
    /\ lock = FALSE
    /\ proxy = [p \in Proxies |-> [connection |-> FALSE, read_queue |-> NoQueue,
                                   write_queue |-> FALSE]]
    /\ agent_task = [p \in Proxies |-> NoTask]
    /\ received = [p \in Proxies |-> <<>>]
    /\ ret = NoRet
    /\ sent = 0
    /\ h_intake = <<>>
    /\ h_mailbox = <<>>
    /\ h_received = [p \in Proxies |-> <<>>]

\* an OEFNetworkProxy and its agent, just constructed
InitNet ==
    /\ net = [connection |-> FALSE, reader |-> FALSE, writer |-> FALSE, closing |-> FALSE]
    /\ net_pc = "idle"
    /\ wire = <<>>
    /\ net_task = [state |-> "None", stale |-> FALSE]
    /\ handshaken = FALSE

\* a DialogueAgent, just constructed, whose loop runs
InitDlg ==
    /\ dialogues = <<>>
    /\ dlg_task = "running"
    /\ dlg_inbound = <<>>
    /\ dlg_created = <<>>
    /\ dlg_calls = <<>>

\* no group of dialogues yet; GroupDialogues.__init__ gives the other fields
NoGroup ==
    [created |-> FALSE, dialogues |-> <<>>, best_agent |-> "", best_price |-> 0,
     nb_answers |-> 0, first |-> TRUE]

InitGroup ==
    /\ group = NoGroup
    /\ group_sent = <<>>
    /\ group_updates = <<>>
    /\ group_finished = 0

InitLoop ==
    /\ loop_agent = "None"
    /\ loop_inbox = <<>>
    /\ loop_task = "None"
    /\ loop_calls = <<>>
    /\ loop_log = <<>>
    /\ loop_arrived = <<>>

InitRx ==
    /\ rx_flight = <<>>
    /\ rx_buffer = <<>>
    /\ rx_pc = "None"
    /\ rx_nbytes = 0
    /\ rx_data = <<>>
    /\ rx_out = <<>>
    /\ rx_sent = <<>>
    /\ rx_eof = FALSE

\* no constructor, check or codec of oef.query and oef.schema has been called
InitApi ==
    /\ api_call = [fn |-> "None"]
    /\ api_ret = [raised |-> "None"]

\* the application tasks of the network agent that issue outbound calls
Tasks == {"t1", "t2"}

\* no application task is inside _send and nothing was written
InitTx ==
    /\ tx_task = [t \in Tasks |-> [pc |-> "idle", msg |-> <<>>]]
    /\ tx_bytes = <<>>
    /\ tx_calls = <<>>

Init ==
    /\ InitLocal /\ InitNet /\ InitDlg /\ InitGroup /\ InitLoop /\ InitRx /\ InitApi
    /\ InitTx

(***************************************************************************)
(* OEFLocalProxy.connect, Agent.async_connect, LocalNode.connect.          *)
(***************************************************************************)
\* a LocalNode.connect that accepts every public key
NodeConnectNeverRefuses(public_key) == FALSE

\* LocalNode.connect returns None
NodeConnectRefuses(public_key) == public_key \in DOMAIN queues

\* OEFLocalProxy.connect returns True at once
LocalAlreadyConnected(p) == proxy[p].connection

LocalConnect(p) ==
    /\ IF LocalAlreadyConnected(p)
       THEN /\ ret' = Ret("connect", p, "True")
            /\ UNCHANGED <<queues, mailbox, h_mailbox, proxy>>
       ELSE IF NodeConnectRefuses(PublicKeyOf(p))
       THEN /\ proxy' = [proxy EXCEPT ![p].connection = FALSE]
            /\ ret' = Ret("connect", p, "OEFConnectionError")
            /\ UNCHANGED <<queues, mailbox, h_mailbox>>
       ELSE LET queue == Len(mailbox) + 1
            IN  /\ queues' = [k \in DOMAIN queues \cup {PublicKeyOf(p)} |->
                                 IF k = PublicKeyOf(p) THEN queue ELSE queues[k]]
                /\ mailbox' = Append(mailbox, <<>>)
                /\ h_mailbox' = Append(h_mailbox, <<>>)
                /\ proxy' = [proxy EXCEPT ![p] = [connection |-> TRUE, read_queue |-> queue,
                                                  write_queue |-> TRUE]]
                /\ ret' = Ret("connect", p, "True")
    /\ UNCHANGED <<read_queue, node_task, agent_task, received, sent, h_intake, h_received>>
    /\ UNCHANGED notRouteVars

(***************************************************************************)
(* Agent.async_disconnect, OEFLocalProxy.stop.                             *)
(***************************************************************************)
LocalIsConnected(p) == proxy[p].connection

LocalStop(p) ==
    proxy' = [proxy EXCEPT ![p] = [connection |-> FALSE, read_queue |-> NoQueue,
                                   write_queue |-> FALSE]]

LocalDisconnect(p) ==
    /\ IF LocalIsConnected(p) THEN LocalStop(p) ELSE UNCHANGED proxy
    /\ ret' = Ret("disconnect", p, "None")
    /\ UNCHANGED <<queues, mailbox, read_queue, node_task, agent_task, received, sent,
                   h_intake, h_mailbox, h_received>>
    /\ UNCHANGED notRouteVars

(***************************************************************************)
(* OEFLocalProxy.send_message/send_cfp/send_propose/send_accept/           *)
(* send_decline and OEFLocalProxy._send.                                   *)
(***************************************************************************)
LocalSend(p, msg) ==
    /\ IF proxy[p].write_queue
       THEN /\ read_queue' = Append(read_queue, <<PublicKeyOf(p), msg>>)
            /\ h_intake' = Append(h_intake, sent + 1)
            /\ sent' = sent + 1
            /\ UNCHANGED ret
       ELSE /\ ret' = Ret("send", p, "AttributeError")
            /\ UNCHANGED <<read_queue, h_intake, sent>>
    /\ UNCHANGED <<queues, mailbox, node_task, proxy, agent_task, received,
                   h_mailbox, h_received>>
    /\ UNCHANGED notRouteVars

(***************************************************************************)
(* LocalNode.__enter__/run, LocalNode.stop, LocalNode._process_messages.   *)
(***************************************************************************)
NodeRun ==
    /\ node_task = "None"
    /\ node_task' = "running"
    /\ UNCHANGED <<queues, mailbox, read_queue, proxy, agent_task, received, ret, sent,
                   h_intake, h_mailbox, h_received>>
    /\ UNCHANGED notRouteVars

NodeStop ==
    /\ node_task # "None"
    /\ IF node_task = "failed"
       THEN /\ ret' = Ret("node_stop", "", "KeyError")
            /\ UNCHANGED node_task
       ELSE /\ node_task' = "done"
            /\ UNCHANGED ret
    /\ UNCHANGED <<queues, mailbox, read_queue, proxy, agent_task, received, sent,
                   h_intake, h_mailbox, h_received>>
    /\ UNCHANGED notRouteVars

\* LocalNode._send_agent_message: the mailboxes after relaying msg of origin
SendAgentMessage(origin, msg) ==
    LET destination == ToEnvelope(msg).send_message.destination
    IN  [mailbox EXCEPT ![queues[destination]] = Append(@, RelayedMessage(origin, msg))]

\* _process_messages over a last-in first-out intake queue
ProcessMessageLifo ==
    /\ node_task = "running"
    /\ read_queue # <<>>
    /\ LET n == Len(read_queue)
           public_key == read_queue[n][1]
           msg == read_queue[n][2]
           destination == ToEnvelope(msg).send_message.destination
       IN  /\ read_queue' = SubSeq(read_queue, 1, n - 1)
           /\ h_intake' = SubSeq(h_intake, 1, n - 1)
           /\ IF destination \in DOMAIN queues
              THEN /\ mailbox' = SendAgentMessage(public_key, msg)
                   /\ h_mailbox' = [h_mailbox EXCEPT ![queues[destination]] =
                                        Append(@, h_intake[n])]
                   /\ UNCHANGED node_task
              ELSE /\ node_task' = "failed"
                   /\ UNCHANGED <<mailbox, h_mailbox>>
    /\ UNCHANGED <<queues, proxy, agent_task, received, ret, sent, h_received>>
    /\ UNCHANGED notRouteVars

\* _process_messages that goes on after CancelledError
ProcessMessageCancelled ==
    /\ node_task \in {"running", "done"}
    /\ read_queue # <<>>
    /\ LET public_key == Head(read_queue)[1]
           msg == Head(read_queue)[2]
           destination == ToEnvelope(msg).send_message.destination
       IN  /\ read_queue' = Tail(read_queue)
           /\ h_intake' = Tail(h_intake)
           /\ IF destination \in DOMAIN queues
              THEN /\ mailbox' = SendAgentMessage(public_key, msg)
                   /\ h_mailbox' = [h_mailbox EXCEPT ![queues[destination]] =
                                        Append(@, Head(h_intake))]
                   /\ UNCHANGED node_task
              ELSE /\ node_task' = "failed"
                   /\ UNCHANGED <<mailbox, h_mailbox>>
    /\ UNCHANGED <<queues, proxy, agent_task, received, ret, sent, h_received>>
    /\ UNCHANGED notRouteVars

\* one iteration of the loop of _process_messages: the head of the intake
\* queue is taken and relayed; a destination that is not in _queues raises
\* KeyError, which ends the task
ProcessMessage ==
    /\ node_task = "running"
    /\ read_queue # <<>>
    /\ LET public_key == Head(read_queue)[1]
           msg == Head(read_queue)[2]
           destination == ToEnvelope(msg).send_message.destination
       IN  /\ read_queue' = Tail(read_queue)
           /\ h_intake' = Tail(h_intake)
           /\ IF destination \in DOMAIN queues
              THEN /\ mailbox' = SendAgentMessage(public_key, msg)
                   /\ h_mailbox' = [h_mailbox EXCEPT ![queues[destination]] =
                                        Append(@, Head(h_intake))]
                   /\ UNCHANGED node_task
              ELSE /\ node_task' = "failed"
                   /\ UNCHANGED <<mailbox, h_mailbox>>
    /\ UNCHANGED <<queues, proxy, agent_task, received, ret, sent, h_received>>
    /\ UNCHANGED notRouteVars

(***************************************************************************)
(* Agent.async_run, Agent.stop, OEFProxy.loop over OEFLocalProxy._receive. *)
(***************************************************************************)
\* the loop calls _receive: it awaits the proxy's _read_queue, and a proxy
\* that has no queue raises AttributeError, which ends the task
LoopReceive(p) ==
    IF proxy[p].read_queue = NoQueue
    THEN [state |-> "failed", queue |-> NoQueue]
    ELSE [state |-> "waiting", queue |-> proxy[p].read_queue]

\* async_run without the test of _task: a loop is created on every call
AsyncRunUnguarded(p) ==
    /\ agent_task' = [agent_task EXCEPT ![p] = LoopReceive(p)]
    /\ UNCHANGED <<queues, mailbox, read_queue, node_task, proxy, received, ret, sent,
                   h_intake, h_mailbox, h_received>>
    /\ UNCHANGED notRouteVars

AsyncRun(p) ==
    /\ IF agent_task[p].state # "None"
       THEN /\ ret' = Ret("async_run", p, "already scheduled")
            /\ UNCHANGED agent_task
       ELSE /\ agent_task' = [agent_task EXCEPT ![p] = LoopReceive(p)]
            /\ UNCHANGED ret
    /\ UNCHANGED <<queues, mailbox, read_queue, node_task, proxy, received, sent,
                   h_intake, h_mailbox, h_received>>
    /\ UNCHANGED notRouteVars

\* one iteration of OEFProxy.loop: a message is taken from the awaited
\* queue, its handler is invoked and _receive is called again
LoopDeliver(p) ==
    /\ agent_task[p].state = "waiting"
    /\ mailbox[agent_task[p].queue] # <<>>
    /\ LET queue == agent_task[p].queue
           call == Dispatch(Head(mailbox[queue]))
       IN  /\ mailbox' = [mailbox EXCEPT ![queue] = Tail(@)]
           /\ h_mailbox' = [h_mailbox EXCEPT ![queue] = Tail(@)]
           /\ IF call.handler # ""
              THEN /\ received' = [received EXCEPT ![p] = Append(@, call)]
                   /\ h_received' = [h_received EXCEPT ![p] = Append(@, Head(h_mailbox[queue]))]
              ELSE UNCHANGED <<received, h_received>>
    /\ agent_task' = [agent_task EXCEPT ![p] = LoopReceive(p)]
    /\ UNCHANGED <<queues, read_queue, node_task, proxy, ret, sent, h_intake>>
    /\ UNCHANGED notRouteVars

AgentStop(p) ==
    /\ agent_task[p].state # "None"
    /\ agent_task' = [agent_task EXCEPT ![p] = NoTask]
    /\ UNCHANGED <<queues, mailbox, read_queue, node_task, proxy, received, ret, sent,
                   h_intake, h_mailbox, h_received>>
    /\ UNCHANGED notRouteVars

(***************************************************************************)
(* Message routing through the local broker: two agents with different     *)
(* public keys connect, disconnect, send each class of message to each     *)
(* identifier and run their loops; the broker runs, relays and stops.      *)
(***************************************************************************)
RouteProxies == {"p1", "p3"}

NextRoute ==
    \/ \E p \in RouteProxies : LocalConnect(p)
    \/ \E p \in RouteProxies : LocalDisconnect(p)
    \/ \E p \in RouteProxies, k \in Keys : \E msg \in AgentMessages(k) :
          sent < MaxRouted /\ LocalSend(p, msg)
    \/ NodeRun
    \/ NodeStop
    \/ ProcessMessage
    \/ \E p \in RouteProxies : AsyncRun(p)
    \/ \E p \in RouteProxies : LoopDeliver(p)
    \/ \E p \in RouteProxies : AgentStop(p)

SpecRoute == Init /\ [][NextRoute]_vars

(***************************************************************************)
(* Relaying order: the same agents submit several messages.                *)
(***************************************************************************)
OrderedMessages(k) == {Message(0, 1, k, "hello"), Accept(3, 0, k, 2)}

NextOrder ==
    \/ \E p \in RouteProxies : LocalConnect(p)
    \/ \E p \in RouteProxies, k \in Keys : \E msg \in OrderedMessages(k) :
          sent < MaxOrdered /\ LocalSend(p, msg)
    \/ NodeRun
    \/ ProcessMessage
    \/ \E p \in RouteProxies : AsyncRun(p)
    \/ \E p \in RouteProxies : LoopDeliver(p)

SpecOrder == Init /\ [][NextOrder]_vars

(***************************************************************************)
(* Properties of message routing.                                          *)
(***************************************************************************)
\* what the handler of the destination is to be called with for msg of sender
ExpectedCall(sender, msg) ==
    CASE msg.type = "Message" ->
            [handler |-> "on_message",
             args |-> <<msg.msg_id, msg.dialogue_id, sender, msg.body.value>>]
      [] msg.type = "CFP" ->
            [handler |-> "on_cfp",
             args |-> <<msg.msg_id, msg.dialogue_id, sender, msg.target, msg.body>>]
      [] msg.type = "Propose" ->
            [handler |-> "on_propose",
             args |-> <<msg.msg_id, msg.dialogue_id, sender, msg.target, msg.body>>]
      [] msg.type = "Accept" ->
            [handler |-> "on_accept",
             args |-> <<msg.msg_id, msg.dialogue_id, sender, msg.target>>]
      [] msg.type = "Decline" ->
            [handler |-> "on_decline",
             args |-> <<msg.msg_id, msg.dialogue_id, sender, msg.target>>]

\* the broker takes the head of the intake queue in this step
Relays == read_queue # <<>> /\ read_queue' = Tail(read_queue)

\* C1: when the broker relays a message of sender S whose destination D has
\* a mailbox, D's mailbox gets exactly one more message, at its end, every
\* other mailbox is unchanged, and the new message carries origin S and the
\* sender's msg_id, dialogue_id and payload, so that D's handler is called
\* with the sender's values.
C1_RelayDelivers ==
    [][Relays =>
         LET S == Head(read_queue)[1]
             msg == Head(read_queue)[2]
             D == msg.destination
         IN  D \in DOMAIN queues =>
               LET q == queues[D]
                   m == mailbox'[q][Len(mailbox'[q])]
               IN  /\ DOMAIN mailbox' = DOMAIN mailbox
                   /\ \A h \in DOMAIN mailbox : h # q => mailbox'[h] = mailbox[h]
                   /\ Len(mailbox'[q]) = Len(mailbox[q]) + 1
                   /\ SubSeq(mailbox'[q], 1, Len(mailbox[q])) = mailbox[q]
                   /\ m.content.origin = S
                   /\ m.answer_id = msg.msg_id
                   /\ m.content.dialogue_id = msg.dialogue_id
                   /\ Dispatch(m) = ExpectedCall(S, msg)]_vars

\* a message of "a" is on the mailbox of "b"
C1_Witness ==
    /\ "b" \in DOMAIN queues
    /\ Len(mailbox[queues["b"]]) = 1
    /\ mailbox[queues["b"]][1].content.origin = "a"

\* the submission numbers of the messages for the agent p, from the handlers
\* already invoked, over its mailbox, to the intake queue
IntakeFor(k) ==
    LET F[i \in 0..Len(read_queue)] ==
          IF i = 0 THEN <<>>
          ELSE IF read_queue[i][2].destination = k
               THEN Append(F[i - 1], h_intake[i])
               ELSE F[i - 1]
    IN  F[Len(read_queue)]

PathTo(p) ==
    h_received[p]
    \o (IF PublicKeyOf(p) \in DOMAIN queues THEN h_mailbox[queues[PublicKeyOf(p)]] ELSE <<>>)
    \o IntakeFor(PublicKeyOf(p))

Increasing(s) == \A i, j \in DOMAIN s : i < j => s[i] < s[j]

\* C2: messages for the same destination stay in the order of submission,
\* whoever sent them: on the way from the intake queue over the mailbox to the
\* handlers, a message submitted earlier is always ahead of one submitted
\* later.
C2_IntakeOrder ==
    /\ \A p \in RouteProxies : Increasing(PathTo(p))
    /\ Len(h_intake) = Len(read_queue)
    /\ \A h \in DOMAIN mailbox : Len(h_mailbox[h]) = Len(mailbox[h])
    /\ \A p \in RouteProxies : Len(h_received[p]) = Len(received[p])

\* the handlers of "b" were invoked for a message of "a" and one of "b"
C2_Witness ==
    /\ Len(received["p3"]) = 2
    /\ received["p3"][1].args[3] # received["p3"][2].args[3]

\* C4: a message whose destination has no mailbox is dropped: the step
\* raises nothing, changes no mailbox and leaves the broker relaying.
C4_SilentDrop ==
    [][(Relays /\ Head(read_queue)[2].destination \notin DOMAIN queues) =>
         (node_task' = "running" /\ mailbox' = mailbox)]_vars

SearchIds == {1}

\* the number of elements of the sequences of a sequence
TotalLen(ss) ==
    LET F[i \in 0..Len(ss)] == IF i = 0 THEN 0 ELSE F[i - 1] + Len(ss[i])
    IN  F[Len(ss)]

(***************************************************************************)
(* Python dictionaries and lists, as the directories use them.             *)
(***************************************************************************)
DictKeys(d) == {d[i].key : i \in DOMAIN d}

DictGet(d, k) == d[CHOOSE i \in DOMAIN d : d[i].key = k].value

\* d[k] = v
DictSet(d, k, v) ==
    IF k \in DictKeys(d)
    THEN [i \in DOMAIN d |-> IF d[i].key = k THEN [key |-> k, value |-> v] ELSE d[i]]
    ELSE Append(d, [key |-> k, value |-> v])

\* d.pop(k), k a key of d
DictPop(d, k) == SelectSeq(d, LAMBDA e : e.key # k)

\* the elements of a list
ListElems(l) == {l[i] : i \in DOMAIN l}

\* a remove that takes every occurrence of x out of l
ListRemoveAll(l, x) == SelectSeq(l, LAMBDA e : e # x)

\* l.remove(x), x an element of l: the first occurrence is removed
ListRemove(l, x) ==
    LET i == CHOOSE i \in DOMAIN l : l[i] = x /\ \A j \in 1..(i - 1) : l[j] # x
    IN  SubSeq(l, 1, i - 1) \o SubSeq(l, i + 1, Len(l))

\* the order of the public keys as strings
KeyRank(k) == CASE k = "a" -> 1 [] k = "b" -> 2 [] k = "c" -> 3

RECURSIVE SetToSeq(_)
SetToSeq(S) ==
    IF S = {} THEN <<>>
    ELSE LET x == CHOOSE x \in S : TRUE IN <<x>> \o SetToSeq(S \ {x})

SortedSetUnsorted(result) == result

\* sorted(set(result))
SortedSet(result) ==
    SortSeq(SetToSeq(ListElems(result)), LAMBDA x, y : KeyRank(x) < KeyRank(y))

(***************************************************************************)
(* LocalNode.register_agent, register_service, unregister_agent,           *)
(* unregister_service, called through the OEFLocalProxy of p.  The lock    *)
(* is taken with run_until_complete(self._lock.acquire()): while the lock  *)
(* is held the call does not return.                                       *)
(***************************************************************************)
\* register_agent without the lock: the entry is written whoever holds it
RegisterAgentUnlocked(p, description) ==
    /\ agents' = DictSet(agents, PublicKeyOf(p), description)
    /\ UNCHANGED <<routeVars, services, lock>>
    /\ UNCHANGED notLocalVars

RegisterAgent(p, description) ==
    /\ ~lock
    /\ agents' = DictSet(agents, PublicKeyOf(p), description)
    /\ UNCHANGED <<routeVars, services, lock>>
    /\ UNCHANGED notLocalVars

\* the list of services[public_key] of the defaultdict
ServicesOf(public_key) ==
    IF public_key \in DictKeys(services) THEN DictGet(services, public_key) ELSE <<>>

RegisterService(p, description) ==
    /\ ~lock
    /\ TotalLen([i \in DOMAIN services |-> services[i].value]) < MaxServices
    /\ services' = DictSet(services, PublicKeyOf(p),
                           Append(ServicesOf(PublicKeyOf(p)), description))
    /\ UNCHANGED <<routeVars, agents, lock>>
    /\ UNCHANGED notLocalVars

\* an unregister_agent that empties the agent directory
UnregisterAgentClears(p) ==
    /\ ~lock
    /\ agents' = <<>>
    /\ UNCHANGED <<routeVars, services, lock>>
    /\ UNCHANGED notLocalVars

\* agents.pop raises KeyError for an agent that is not registered, before
\* the lock is released
UnregisterAgent(p) ==
    /\ ~lock
    /\ IF PublicKeyOf(p) \in DictKeys(agents)
       THEN /\ agents' = DictPop(agents, PublicKeyOf(p))
            /\ UNCHANGED <<lock, ret>>
       ELSE /\ lock' = TRUE
            /\ ret' = Ret("unregister_agent", p, "KeyError")
            /\ UNCHANGED agents
    /\ UNCHANGED <<queues, mailbox, read_queue, node_task, proxy, agent_task, received,
                   sent, h_intake, h_mailbox, h_received, services>>
    /\ UNCHANGED notLocalVars

\* services[public_key] creates the entry of a missing key; list.remove
\* raises ValueError for a description that is not in the list, before the
\* lock is released
UnregisterService(p, description) ==
    /\ ~lock
    /\ LET public_key == PublicKeyOf(p)
           descriptions == ServicesOf(public_key)
       IN  IF description \in ListElems(descriptions)
           THEN /\ services' =
                     IF Len(ListRemove(descriptions, description)) = 0
                     THEN DictPop(services, public_key)
                     ELSE DictSet(services, public_key, ListRemove(descriptions, description))
                /\ UNCHANGED <<lock, ret>>
           ELSE /\ services' = DictSet(services, public_key, descriptions)
                /\ lock' = TRUE
                /\ ret' = Ret("unregister_service", p, "ValueError")
    /\ UNCHANGED <<queues, mailbox, read_queue, node_task, proxy, agent_task, received,
                   sent, h_intake, h_mailbox, h_received, agents>>
    /\ UNCHANGED notLocalVars

(***************************************************************************)
(* LocalNode.search_agents, search_services, _send_search_result.          *)
(***************************************************************************)
\* the public keys appended to result by the loop of search_agents
SearchAgentsResult(query) ==
    LET matching == SelectSeq(agents, LAMBDA e : QueryCheck(query, e.value))
    IN  [i \in DOMAIN matching |-> matching[i].key]

\* the public keys appended to result by the loops of search_services
SearchServicesResult(query) ==
    LET F[i \in 0..Len(services)] ==
          IF i = 0 THEN <<>>
          ELSE LET matching == SelectSeq(services[i].value,
                                         LAMBDA d : QueryCheck(query, d))
               IN  F[i - 1] \o [j \in DOMAIN matching |-> services[i].key]
    IN  F[Len(services)]

\* _send_search_result: _queues[public_key] raises KeyError for a requester
\* that has no mailbox
SendSearchResult(p, op, search_id, result) ==
    /\ IF PublicKeyOf(p) \in DOMAIN queues
       THEN LET queue == queues[PublicKeyOf(p)]
            IN  /\ TotalLen(mailbox) < MaxResults
                /\ mailbox' = [mailbox EXCEPT ![queue] =
                                   Append(@, SearchResultMessage(search_id, result))]
                /\ h_mailbox' = [h_mailbox EXCEPT ![queue] = Append(@, 0)]
                /\ UNCHANGED ret
       ELSE /\ ret' = Ret(op, p, "KeyError")
            /\ UNCHANGED <<mailbox, h_mailbox>>
    /\ UNCHANGED <<queues, read_queue, node_task, proxy, agent_task, received,
                   sent, h_intake, h_received, directoryVars>>
    /\ UNCHANGED notLocalVars

SearchAgents(p, search_id, query) ==
    SendSearchResult(p, "search_agents", search_id, SortedSet(SearchAgentsResult(query)))

SearchServices(p, search_id, query) ==
    SendSearchResult(p, "search_services", search_id, SortedSet(SearchServicesResult(query)))

(***************************************************************************)
(* Registration and search at the local broker.                            *)
(***************************************************************************)
NextSearch ==
    \/ \E p \in RouteProxies : LocalConnect(p)
    \/ \E p \in RouteProxies, d \in Descriptions : RegisterAgent(p, d)
    \/ \E p \in RouteProxies, d \in Descriptions : RegisterService(p, d)
    \/ \E p \in RouteProxies : UnregisterAgent(p)
    \/ \E p \in RouteProxies, d \in Descriptions : UnregisterService(p, d)
    \/ \E p \in RouteProxies, i \in SearchIds, q \in Queries : SearchAgents(p, i, q)
    \/ \E p \in RouteProxies, i \in SearchIds, q \in Queries : SearchServices(p, i, q)

SpecSearch == Init /\ [][NextSearch]_vars

(***************************************************************************)
(* Properties of search.                                                   *)
(***************************************************************************)
\* the identifiers with a registered agent description that satisfies query
MatchingAgents(query) ==
    {k \in Keys : \E i \in DOMAIN agents :
                     agents[i].key = k /\ QueryCheck(query, agents[i].value)}

\* the identifiers with at least one registered service description that
\* satisfies query
MatchingServices(query) ==
    {k \in Keys : \E i \in DOMAIN services :
                     /\ services[i].key = k
                     /\ \E j \in DOMAIN services[i].value :
                           QueryCheck(query, services[i].value[j])}

\* this step puts one search result for search_id on the mailbox of p and
\* nothing on another mailbox, and its list is the set expected, ascending
PlacesResult(p, search_id, expected) ==
    /\ PublicKeyOf(p) \in DOMAIN queues
    /\ LET q == queues[PublicKeyOf(p)]
           m == mailbox'[q][Len(mailbox'[q])]
       IN  /\ DOMAIN mailbox' = DOMAIN mailbox
           /\ \A h \in DOMAIN mailbox : h # q => mailbox'[h] = mailbox[h]
           /\ Len(mailbox'[q]) = Len(mailbox[q]) + 1
           /\ SubSeq(mailbox'[q], 1, Len(mailbox[q])) = mailbox[q]
           /\ m.payload = "agents"
           /\ m.answer_id = search_id
           /\ {m.agents[j] : j \in DOMAIN m.agents} = expected
           /\ \A j, k \in DOMAIN m.agents :
                 j < k => KeyRank(m.agents[j]) < KeyRank(m.agents[k])

NetPublicKey == "n"

\* the phrases the Node challenges the agent with
Phrases == {<<"x", "y">>, <<"x", "y", "z">>}

\* Server.Phrase: the failure marker or a phrase
PhraseFailure == [case |-> "failure", phrase |-> <<>>]
PhraseReplies == {PhraseFailure} \cup {[case |-> "phrase", phrase |-> ph] : ph \in Phrases}

\* the outbound operations of the proxy
NetOps == {"register_agent", "register_service", "unregister_agent", "unregister_service",
           "search_agents", "search_services", "send_message", "send_cfp", "send_propose",
           "send_accept", "send_decline"}

\* a frame written to the transport and a frame read from it
Sent(type, data) == [dir |-> "send", type |-> type, data |-> data]
Received(type, data) == [dir |-> "recv", type |-> type, data |-> data]

Envelopes(w) == SelectSeq(w, LAMBDA f : f.type = "Envelope")

\* the phrase sent back as it came
ReverseNot(s) == s

\* pb_phrase.phrase[::-1]
Reverse(s) == [i \in 1..Len(s) |-> s[Len(s) + 1 - i]]

NetIsConnected == net.connection

\* a connect() that never returns early
NetNeverAlreadyConnected == FALSE

\* the early return of OEFNetworkProxy.connect
NetAlreadyConnected == NetIsConnected /\ ~net.closing

NoTransport == [connection |-> FALSE, reader |-> FALSE, writer |-> FALSE, closing |-> FALSE]

\* a task that awaits a reader keeps awaiting it when the proxy drops or
\* replaces that reader
Orphaned(task) == [task EXCEPT !.stale = @ \/ task.state = "waiting"]

\* Agent.async_connect over OEFNetworkProxy.connect, up to the first await of
\* a reply: an already connected proxy returns True; otherwise a connection
\* is opened and the identifier is sent (step 1).  One handshake runs at a
\* time.
NetConnect ==
    /\ IF NetAlreadyConnected
       THEN /\ ret' = Ret("connect", NetPublicKey, "True")
            /\ UNCHANGED netVars
       ELSE /\ net_pc = "idle"
            /\ net' = [connection |-> TRUE, reader |-> TRUE, writer |-> TRUE, closing |-> FALSE]
            /\ wire' = <<Sent("ID", <<NetPublicKey>>)>>
            /\ net_pc' = "phrase"
            /\ net_task' = Orphaned(net_task)
            /\ handshaken' = FALSE
            /\ UNCHANGED ret
    /\ UNCHANGED notNetVars

\* step 2 and step 3: the reply of the Node arrives; on the failure marker
\* connect returns False and async_connect raises; otherwise the reversed
\* phrase is sent, and _send raises when the proxy was stopped meanwhile
NetReceivePhrase(reply) ==
    /\ net_pc = "phrase"
    /\ IF reply.case = "failure"
       THEN /\ wire' = Append(wire, Received("Failure", <<>>))
            /\ net_pc' = "idle"
            /\ ret' = Ret("connect", NetPublicKey, "OEFConnectionError")
       ELSE IF ~net.writer
       THEN /\ wire' = Append(wire, Received("Phrase", reply.phrase))
            /\ net_pc' = "idle"
            /\ ret' = Ret("connect", NetPublicKey, "OEFConnectionError")
       ELSE /\ wire' = wire \o <<Received("Phrase", reply.phrase),
                                 Sent("Answer", Reverse(reply.phrase))>>
            /\ net_pc' = "status"
            /\ UNCHANGED ret
    /\ UNCHANGED <<net, net_task, handshaken>>
    /\ UNCHANGED notNetVars

\* step 4: the status arrives and connect returns it; async_connect raises
\* when it is False
NetReceiveStatus(status) ==
    /\ net_pc = "status"
    /\ wire' = Append(wire, Received("Connected", <<IF status THEN "True" ELSE "False">>))
    /\ net_pc' = "idle"
    /\ ret' = Ret("connect", NetPublicKey, IF status THEN "True" ELSE "OEFConnectionError")
    /\ handshaken' = (status /\ net.connection)
    /\ UNCHANGED <<net, net_task>>
    /\ UNCHANGED notNetVars

\* the awaited read returns no bytes because the transport was closed:
\* struct.unpack raises in _receive and connect ends with that error
NetReceiveEof ==
    /\ net_pc # "idle"
    /\ net.closing \/ ~net.reader
    /\ net_pc' = "idle"
    /\ ret' = Ret("connect", NetPublicKey, "struct.error")
    /\ UNCHANGED <<net, wire, net_task, handshaken>>
    /\ UNCHANGED notNetVars

\* the peer closes the connection or the connection is lost
NetTransportCloses ==
    /\ net.connection
    /\ ~net.closing
    /\ net' = [net EXCEPT !.closing = TRUE]
    /\ UNCHANGED <<net_pc, wire, net_task, handshaken, ret>>
    /\ UNCHANGED notNetVars

\* every outbound operation of OEFNetworkProxy builds a message and calls
\* _send with its envelope
NetSend(op) ==
    /\ IF ~net.writer
       THEN /\ ret' = Ret(op, NetPublicKey, "OEFConnectionError")
            /\ UNCHANGED wire
       ELSE /\ wire' = Append(wire, Sent("Envelope", <<op>>))
            /\ UNCHANGED ret
    /\ UNCHANGED <<net, net_pc, net_task, handshaken>>
    /\ UNCHANGED notNetVars

\* OEFNetworkProxy.stop: draining a writer that is None raises, and draining
\* the writer of a lost connection may raise the error of the connection;
\* otherwise the writer is closed and the three fields are cleared
NetStop ==
    IF ~net.writer
    THEN /\ ret' = Ret("disconnect", NetPublicKey, "AttributeError")
         /\ UNCHANGED <<net, net_task, handshaken>>
    ELSE \/ /\ net' = NoTransport
            /\ net_task' = Orphaned(net_task)
            /\ handshaken' = FALSE
            /\ ret' = Ret("disconnect", NetPublicKey, "None")
         \/ /\ net.closing
            /\ ret' = Ret("disconnect", NetPublicKey, "ConnectionError")
            /\ UNCHANGED <<net, net_task, handshaken>>

\* a disconnect that stops the proxy whatever is_connected() says
NetDisconnectUnguarded ==
    /\ NetStop
    /\ UNCHANGED <<net_pc, wire>>
    /\ UNCHANGED notNetVars

\* Agent.async_disconnect over the network proxy
NetDisconnect ==
    /\ IF NetIsConnected
       THEN NetStop
       ELSE /\ ret' = Ret("disconnect", NetPublicKey, "None")
            /\ UNCHANGED <<net, net_task, handshaken>>
    /\ UNCHANGED <<net_pc, wire>>
    /\ UNCHANGED notNetVars

\* Agent.async_run over OEFProxy.loop: the loop calls _receive, which raises
\* when there is no reader; a reader that connect() is awaiting refuses a
\* second waiter
NetAsyncRun ==
    /\ IF net_task.state # "None"
       THEN /\ ret' = Ret("async_run", NetPublicKey, "already scheduled")
            /\ UNCHANGED net_task
       ELSE IF ~net.reader
       THEN /\ net_task' = [state |-> "failed", stale |-> FALSE]
            /\ ret' = Ret("async_run", NetPublicKey, "OEFConnectionError")
       ELSE IF net_pc # "idle"
       THEN /\ net_task' = [state |-> "failed", stale |-> FALSE]
            /\ ret' = Ret("async_run", NetPublicKey, "RuntimeError")
       ELSE /\ net_task' = [state |-> "waiting", stale |-> FALSE]
            /\ UNCHANGED ret
    /\ UNCHANGED <<net, net_pc, wire, handshaken>>
    /\ UNCHANGED notNetVars

\* one iteration of the loop: a frame of the Node is read and dispatched,
\* and _receive is called again
NetLoopDeliver ==
    /\ net_task.state = "waiting"
    /\ ~net_task.stale
    /\ ~net.closing
    /\ net_pc = "idle"
    /\ wire' = Append(wire, Received("Envelope", <<"message">>))
    /\ UNCHANGED <<net, net_pc, net_task, handshaken, ret>>
    /\ UNCHANGED notNetVars

\* the reader awaited by the loop reaches its end: struct.unpack raises
NetLoopEof ==
    /\ net_task.state = "waiting"
    /\ net_task.stale \/ net.closing
    /\ net_task' = [state |-> "failed", stale |-> FALSE]
    /\ UNCHANGED <<net, net_pc, wire, handshaken, ret>>
    /\ UNCHANGED notNetVars

\* Agent.stop of the network agent
NetAgentStop ==
    /\ net_task.state # "None"
    /\ net_task' = [state |-> "None", stale |-> FALSE]
    /\ UNCHANGED <<net, net_pc, wire, handshaken, ret>>
    /\ UNCHANGED notNetVars

(***************************************************************************)
(* A network agent against a Node: it connects, disconnects, calls each    *)
(* outbound operation and runs its loop while the Node replies and the     *)
(* transport may close.                                                    *)
(***************************************************************************)
NextNet ==
    \/ NetConnect
    \/ \E reply \in PhraseReplies : NetReceivePhrase(reply)
    \/ \E status \in BOOLEAN : NetReceiveStatus(status)
    \/ NetReceiveEof
    \/ NetTransportCloses
    \/ \E op \in NetOps : Len(Envelopes(wire)) < MaxFrames /\ NetSend(op)
    \/ NetDisconnect
    \/ NetAsyncRun
    \/ Len(Envelopes(wire)) < MaxFrames /\ NetLoopDeliver
    \/ NetLoopEof
    \/ NetAgentStop

SpecNet == Init /\ [][NextNet]_vars

(***************************************************************************)
(* Connections: three local agents, two of them with the same public key,  *)
(* and a network agent connect and disconnect; the local agents send       *)
(* simple messages that the broker relays.                                 *)
(***************************************************************************)
NextConn ==
    \/ \E p \in Proxies : LocalConnect(p)
    \/ \E p \in Proxies : LocalDisconnect(p)
    \/ \E p \in Proxies : sent < MaxRouted /\ LocalSend(p, Message(0, 1, PublicKeyOf(p), "hello"))
    \/ NodeRun
    \/ ProcessMessage
    \/ NetConnect
    \/ \E reply \in PhraseReplies : NetReceivePhrase(reply)
    \/ \E status \in BOOLEAN : NetReceiveStatus(status)
    \/ NetReceiveEof
    \/ NetTransportCloses
    \/ NetDisconnect

SpecConn == Init /\ [][NextConn]_vars

(***************************************************************************)
(* Properties of connections.                                              *)
(***************************************************************************)

\* every variable but ret
allButRet == <<notNetVars, netVars>>

OneMailboxPerKey ==
    /\ \A k1, k2 \in DOMAIN queues : k1 # k2 => queues[k1] # queues[k2]
    /\ \A p \in Proxies : proxy[p].connection =>
           /\ PublicKeyOf(p) \in DOMAIN queues
           /\ proxy[p].read_queue = queues[PublicKeyOf(p)]
    /\ \A p, q \in Proxies : p # q /\ proxy[p].connection /\ proxy[q].connection =>
           /\ PublicKeyOf(p) # PublicKeyOf(q)
           /\ proxy[p].read_queue # proxy[q].read_queue

RefusedConnectChangesNothing ==
    \A p \in Proxies :
        LocalConnect(p) /\ ~proxy[p].connection /\ PublicKeyOf(p) \in DOMAIN queues =>
            /\ ret' = Ret("connect", p, "OEFConnectionError")
            /\ ~proxy'[p].connection
            /\ \A q \in Proxies \ {p} : proxy'[q] = proxy[q]
            /\ UNCHANGED <<queues, mailbox, read_queue, agent_task, received,
                           directoryVars, netVars>>

\* C5: the local broker refuses to connect a public key that has a mailbox:
\* the connect of the agent raises OEFConnectionError and the mailbox, the
\* table of mailboxes and the other proxies stay as they were; every public
\* key has one mailbox and two connected proxies never share a mailbox.
C5_ConnectRefused == []OneMailboxPerKey /\ [][RefusedConnectChangesNothing]_vars

C5_Witness ==
    /\ ret = Ret("connect", "p2", "OEFConnectionError")
    /\ proxy["p1"].connection
    /\ ~proxy["p2"].connection
    /\ mailbox[proxy["p1"].read_queue] # <<>>

\* the frames of the handshake on the current transport
Handshake(w) == SelectSeq(w, LAMBDA f : f.type # "Envelope")

HandshakeOrder ==
    LET hs == Handshake(wire)
    IN  /\ Len(hs) <= 4
        /\ Len(hs) >= 1 => hs[1] = Sent("ID", <<NetPublicKey>>)
        /\ Len(hs) >= 2 => hs[2].dir = "recv" /\ hs[2].type \in {"Phrase", "Failure"}
        /\ Len(hs) >= 3 =>
               /\ hs[2].type = "Phrase"
               /\ hs[3].dir = "send" /\ hs[3].type = "Answer"
               /\ Len(hs[3].data) = Len(hs[2].data)
               /\ \A i \in 1..Len(hs[2].data) :
                      hs[3].data[i] = hs[2].data[Len(hs[2].data) + 1 - i]
        /\ Len(hs) >= 4 => hs[4].dir = "recv" /\ hs[4].type = "Connected"

ConnectReturns ==
    net_pc # "idle" /\ net_pc' = "idle" =>
        LET hs == Handshake(wire')
            last == hs[Len(hs)]
        IN  /\ ret'.op = "connect" /\ ret'.who = NetPublicKey
            /\ last.dir = "recv" /\ last.type = "Failure" => ret'.result = "OEFConnectionError"
            /\ last.dir = "recv" /\ last.type = "Connected" =>
                   ret'.result = IF last.data = <<"True">> THEN "True" ELSE "OEFConnectionError"

\* C6: the handshake of the network proxy sends the identifier, receives a
\* phrase or the failure marker, sends the phrase reversed and receives a
\* status, in this order; after the failure marker no answer is sent and
\* the connect fails; otherwise the connect gives the status received.
C6_Handshake == []HandshakeOrder /\ [][ConnectReturns]_vars

C6_Witness ==
    /\ Len(Handshake(wire)) = 4
    /\ wire[2] = Received("Phrase", <<"x", "y", "z">>)
    /\ ret = Ret("connect", NetPublicKey, "True")
    /\ handshaken

C8_NotConnectedRaises ==
    [][~handshaken =>
           /\ \A op \in NetOps : NetSend(op) =>
                  ret' = Ret(op, NetPublicKey, "OEFConnectionError") /\ wire' = wire
           /\ NetAsyncRun /\ net_task.state = "None" =>
                  ret' = Ret("async_run", NetPublicKey, "OEFConnectionError")
           /\ ~NetLoopDeliver]_vars

DlgPublicKey == "d"

\* the (origin, dialogue_id) pairs of the inbound messages
DialogueKeys == {<<"a", 0>>, <<"a", 1>>, <<"b", 0>>}

\* the messages a peer sends in the dialogue dialogue_id
DialogueMessages(dialogue_id) ==
    {Message(0, dialogue_id, DlgPublicKey, "hello"),
     CFP(1, dialogue_id, DlgPublicKey, 0, CfpNothing),
     Propose(2, dialogue_id, DlgPublicKey, 1, ProposeProposals),
     Accept(3, dialogue_id, DlgPublicKey, 2),
     Decline(3, dialogue_id, DlgPublicKey, 2)}

\* SingleDialogue.__init__ with an identifier and SingleDialogue.key
SingleDialogue(destination, id) ==
    [destination |-> destination, id |-> id, is_buyer |-> FALSE, received_msg |-> <<>>]

SingleDialogueKey(dialogue) == <<dialogue.destination, dialogue.id>>

\* the key (origin, dialogue_id) a handler of DialogueAgent looks up
DialogueKey(call) == <<call.args[3], call.args[2]>>

\* what the handler of SimpleSingleDialogueTest appends to received_msg
SessionEntry(call) ==
    IF call.handler = "on_message"
    THEN [handler |-> call.handler, args |-> <<call.args[1], call.args[4]>>]
    ELSE IF call.handler \in {"on_cfp", "on_propose"}
    THEN [handler |-> call.handler, args |-> <<call.args[1], call.args[4], call.args[5]>>]
    ELSE [handler |-> call.handler, args |-> <<call.args[1], call.args[4]>>]

\* the handler of the session of the call is invoked
SessionReceives(ds, call) ==
    LET key == DialogueKey(call)
        dialogue == DictGet(ds, key)
    IN  DictSet(ds, key, [dialogue EXCEPT !.received_msg = Append(@, SessionEntry(call))])

\* DialogueAgent.register_dialogue of a dialogue whose key is not in use
RegisterDialogue(ds, dialogue) == DictSet(ds, SingleDialogueKey(dialogue), dialogue)

\* a hook that registers the session and drops the message
NewSessionHookRegistersOnly(ds, call) ==
    RegisterDialogue(ds, SingleDialogue(call.args[3], call.args[2]))

\* AgentSingleDialogueTest.on_new_cfp and on_new_message
NewSessionHook(ds, call) ==
    SessionReceives(RegisterDialogue(ds, SingleDialogue(call.args[3], call.args[2])), call)

\* the invocation of the handler of a session and of a new-session hook
SessionCall(call) == [kind |-> "session", handler |-> call.handler, args |-> call.args]

HookCall(call) ==
    [kind |-> "hook",
     handler |-> IF call.handler = "on_cfp" THEN "on_new_cfp" ELSE "on_new_message",
     args |-> call.args]

\* every handler of DialogueAgent falls back to the hook
FallsBackAlways(call) == TRUE

\* the handlers of DialogueAgent that catch the KeyError of the lookup
FallsBackToHook(call) == call.handler \in {"on_message", "on_cfp"}

\* one iteration of OEFProxy.loop of the dialogue agent: the message of
\* origin is dispatched to the handler of DialogueAgent; on_message and
\* on_cfp fall back to the hook when _get_dialogue raises KeyError, while
\* in on_propose, on_accept and on_decline the KeyError ends the loop
DialogueDispatch(origin, msg) ==
    /\ dlg_task = "running"
    /\ LET call == Dispatch(RelayedMessage(origin, msg))
           key == DialogueKey(call)
       IN  /\ dlg_inbound' = Append(dlg_inbound, call)
           /\ IF key \in DictKeys(dialogues)
              THEN /\ dialogues' = SessionReceives(dialogues, call)
                   /\ dlg_calls' = Append(dlg_calls, SessionCall(call))
                   /\ UNCHANGED <<dlg_created, dlg_task, ret>>
              ELSE IF FallsBackToHook(call)
              THEN /\ dialogues' = NewSessionHook(dialogues, call)
                   /\ dlg_created' = Append(dlg_created, key)
                   /\ dlg_calls' = dlg_calls \o <<HookCall(call), SessionCall(call)>>
                   /\ UNCHANGED <<dlg_task, ret>>
              ELSE /\ dlg_task' = "failed"
                   /\ ret' = Ret(call.handler, DlgPublicKey, "KeyError")
                   /\ UNCHANGED <<dialogues, dlg_created, dlg_calls>>
    /\ UNCHANGED notDlgVars

(***************************************************************************)
(* A dialogue agent receives the messages of three dialogues in any order. *)
(***************************************************************************)
NextDlg ==
    \E key \in DialogueKeys : \E msg \in DialogueMessages(key[2]) :
        Len(dlg_inbound) < MaxInbound /\ DialogueDispatch(key[1], msg)

SpecDlg == Init /\ [][NextDlg]_vars

\* Agent.async_run of the dialogue agent: _task is tested as it is, set
\* also when its loop has ended
DialogueAsyncRun ==
    /\ IF dlg_task # "None"
       THEN /\ ret' = Ret("async_run", DlgPublicKey, "already scheduled")
            /\ UNCHANGED dlg_task
       ELSE /\ dlg_task' = "running"
            /\ UNCHANGED ret
    /\ UNCHANGED <<dialogues, dlg_inbound, dlg_created, dlg_calls>>
    /\ UNCHANGED notDlgVars

\* Agent.stop of the dialogue agent
DialogueAgentStop ==
    /\ IF dlg_task # "None" THEN dlg_task' = "None" ELSE UNCHANGED dlg_task
    /\ ret' = Ret("stop", DlgPublicKey, "None")
    /\ UNCHANGED <<dialogues, dlg_inbound, dlg_created, dlg_calls>>
    /\ UNCHANGED notDlgVars

\* a dialogue agent whose loop is run, stopped and run again while the
\* messages of its peers arrive
NextDlgRun ==
    \/ \E key \in DialogueKeys : \E msg \in DialogueMessages(key[2]) :
           Len(dlg_inbound) < MaxDispatched /\ DialogueDispatch(key[1], msg)
    \/ DialogueAsyncRun
    \/ DialogueAgentStop

SpecDlgRun == Init /\ [][NextDlgRun]_vars

\* the calls dispatched for one key, in the order of their dispatch
InboundOf(key) == SelectSeq(dlg_inbound, LAMBDA call : <<call.args[3], call.args[2]>> = key)

\* the entry a session keeps of a call: the arguments but dialogue_id and origin
ExpectedEntry(call) ==
    [handler |-> call.handler,
     args |-> <<call.args[1]>> \o SubSeq(call.args, 4, Len(call.args))]

\* C10: the messages of one (origin, dialogue_id) that begin with a CFP or
\* a simple message create one session for that key, and the session holds
\* one entry for each of these messages, in their order, and no entry of a
\* message of another key.
C10_OneSession ==
    \A key \in DialogueKeys :
        LET inbound == InboundOf(key)
        IN  inbound # <<>> /\ inbound[1].handler \in {"on_cfp", "on_message"} =>
                /\ Len(SelectSeq(dlg_created, LAMBDA k : k = key)) = 1
                /\ Len(SelectSeq(dialogues, LAMBDA e : e.key = key)) = 1
                /\ LET log == DictGet(dialogues, key).received_msg
                   IN  /\ Len(log) = Len(inbound)
                       /\ \A i \in 1..Len(inbound) :
                              /\ log[i].handler = ExpectedEntry(inbound[i]).handler
                              /\ log[i].args = ExpectedEntry(inbound[i]).args

C10_Witness ==
    /\ Len(dialogues) = 2
    /\ <<"b", 0>> \in DictKeys(dialogues)
    /\ <<"a", 0>> \in DictKeys(dialogues)
    /\ DictGet(dialogues, <<"a", 0>>).received_msg =
           <<[handler |-> "on_cfp", args |-> <<1, 0, CfpNothing>>],
             [handler |-> "on_propose", args |-> <<2, 1, ProposeProposals>>],
             [handler |-> "on_accept", args |-> <<3, 2>>]>>

(***************************************************************************)
(* DialogueAgent with sessions of any subclass of SingleDialogue: the      *)
(* handlers of SingleDialogue are abstract, so the handler of a session    *)
(* returns or raises as its class decides.                                 *)
(***************************************************************************)
\* what the handler of a session does when it is invoked: it keeps the
\* message and returns, or it raises
SessionOutcomes == {"returns", "KeyError", "ValueError"}

\* DialogueAgent.on_message, on_cfp, on_propose, on_accept, on_decline for
\* one inbound message: the lookup of the session and the call of its
\* handler are inside one try block in on_message and on_cfp, so a KeyError
\* of either sends the message to the hook; the hook of
\* AgentSingleDialogueTest registers a session, which raises ValueError for
\* a key in use, and dispatches the message again
SessionDispatch(origin, msg, outcome) ==
    /\ dlg_task = "running"
    /\ LET call == Dispatch(RelayedMessage(origin, msg))
           key == DialogueKey(call)
           hook == HookCall(call)
           registered == RegisterDialogue(dialogues, SingleDialogue(call.args[3], call.args[2]))
       IN  /\ dlg_inbound' = Append(dlg_inbound, call)
           /\ IF key \in DictKeys(dialogues)
              THEN IF outcome = "returns"
                   THEN /\ dialogues' = SessionReceives(dialogues, call)
                        /\ dlg_calls' = Append(dlg_calls, SessionCall(call))
                        /\ UNCHANGED <<dlg_created, dlg_task, ret>>
                   ELSE IF outcome = "KeyError" /\ FallsBackToHook(call)
                   THEN /\ dlg_calls' = dlg_calls \o <<SessionCall(call), hook>>
                        /\ dlg_task' = "failed"
                        /\ ret' = Ret(hook.handler, DlgPublicKey, "ValueError")
                        /\ UNCHANGED <<dialogues, dlg_created>>
                   ELSE /\ dlg_calls' = Append(dlg_calls, SessionCall(call))
                        /\ dlg_task' = "failed"
                        /\ ret' = Ret(call.handler, DlgPublicKey, outcome)
                        /\ UNCHANGED <<dialogues, dlg_created>>
              ELSE IF FallsBackToHook(call)
              THEN /\ dlg_created' = Append(dlg_created, key)
                   /\ IF outcome = "returns"
                      THEN /\ dialogues' = SessionReceives(registered, call)
                           /\ dlg_calls' = dlg_calls \o <<hook, SessionCall(call)>>
                           /\ UNCHANGED <<dlg_task, ret>>
                      ELSE IF outcome = "KeyError"
                      THEN /\ dialogues' = registered
                           /\ dlg_calls' = dlg_calls \o <<hook, SessionCall(call), hook>>
                           /\ dlg_task' = "failed"
                           /\ ret' = Ret(hook.handler, DlgPublicKey, "ValueError")
                      ELSE /\ dialogues' = registered
                           /\ dlg_calls' = dlg_calls \o <<hook, SessionCall(call)>>
                           /\ dlg_task' = "failed"
                           /\ ret' = Ret(call.handler, DlgPublicKey, outcome)
              ELSE /\ dlg_task' = "failed"
                   /\ ret' = Ret(call.handler, DlgPublicKey, "KeyError")
                   /\ UNCHANGED <<dialogues, dlg_created, dlg_calls>>
    /\ UNCHANGED notDlgVars

\* a register_dialogue and an unregister_dialogue that never raise
DialogueKeyNeverInUse(key) == FALSE

\* dialogue_key in self.dialogues
DialogueKeyInUse(key) == key \in DictKeys(dialogues)

\* DialogueAgent.register_dialogue called by the embedding agent
DialogueRegister(dialogue) ==
    /\ IF DialogueKeyInUse(SingleDialogueKey(dialogue))
       THEN /\ ret' = Ret("register_dialogue", DlgPublicKey, "ValueError")
            /\ UNCHANGED dialogues
       ELSE /\ dialogues' = RegisterDialogue(dialogues, dialogue)
            /\ ret' = Ret("register_dialogue", DlgPublicKey, "None")
    /\ UNCHANGED <<dlg_task, dlg_inbound, dlg_created, dlg_calls>>
    /\ UNCHANGED notDlgVars

\* DialogueAgent.unregister_dialogue called by the embedding agent
DialogueUnregister(dialogue) ==
    /\ IF ~DialogueKeyInUse(SingleDialogueKey(dialogue))
       THEN /\ ret' = Ret("unregister_dialogue", DlgPublicKey, "ValueError")
            /\ UNCHANGED dialogues
       ELSE /\ dialogues' = DictPop(dialogues, SingleDialogueKey(dialogue))
            /\ ret' = Ret("unregister_dialogue", DlgPublicKey, "None")
    /\ UNCHANGED <<dlg_task, dlg_inbound, dlg_created, dlg_calls>>
    /\ UNCHANGED notDlgVars

\* the values of uuid.uuid4().time_mid
TimeMids == {0, 1}

\* SingleDialogue.__init__ without an identifier: the identifier is the
\* time_mid field of a random UUID
InitiatedDialogue(destination, time_mid) ==
    [destination |-> destination, id |-> time_mid, is_buyer |-> TRUE, received_msg |-> <<>>]

\* the embedding agent opens a dialogue with a peer and registers it
DialogueInitiate(destination, time_mid) ==
    /\ LET dialogue == InitiatedDialogue(destination, time_mid)
       IN  IF DialogueKeyInUse(SingleDialogueKey(dialogue))
           THEN /\ ret' = Ret("initiate", DlgPublicKey, "ValueError")
                /\ UNCHANGED dialogues
           ELSE /\ dialogues' = RegisterDialogue(dialogues, dialogue)
                /\ ret' = Ret("initiate", DlgPublicKey, "None")
    /\ UNCHANGED <<dlg_task, dlg_inbound, dlg_created, dlg_calls>>
    /\ UNCHANGED notDlgVars

(***************************************************************************)
(* A dialogue agent registers, unregisters and opens dialogues with one    *)
(* peer while messages of two dialogues arrive for sessions of any class.  *)
(***************************************************************************)
SessionKeys == {<<"a", 0>>, <<"a", 1>>}

NextSession ==
    \/ \E key \in SessionKeys : \E msg \in DialogueMessages(key[2]) :
           \E outcome \in SessionOutcomes :
               Len(dlg_inbound) < MaxDispatched /\ SessionDispatch(key[1], msg, outcome)
    \/ \E key \in SessionKeys : DialogueRegister(SingleDialogue(key[1], key[2]))
    \/ \E key \in SessionKeys : DialogueUnregister(SingleDialogue(key[1], key[2]))
    \/ \E key \in SessionKeys : key[2] \in TimeMids /\ DialogueInitiate(key[1], key[2])

SpecSession == Init /\ [][NextSession]_vars

(***************************************************************************)
(* Properties of the sessions of a dialogue agent.                         *)
(***************************************************************************)
\* the hooks and session handlers invoked in a step
NewCalls == SubSeq(dlg_calls', Len(dlg_calls) + 1, Len(dlg_calls'))

NewHooks == SelectSeq(NewCalls, LAMBDA c : c.kind = "hook")

\* C11: for an inbound simple message or CFP the new-session hook is
\* invoked, with the fields of the message, if and only if no session is
\* registered for (origin, dialogue_id); with a registered session only the
\* handler of that session is invoked, whatever it does.
C11_HookIffNoSession ==
    [][\A key \in SessionKeys : \A msg \in DialogueMessages(key[2]) :
           \A outcome \in SessionOutcomes :
               LET call == Dispatch(RelayedMessage(key[1], msg))
               IN  SessionDispatch(key[1], msg, outcome)
                       /\ call.handler \in {"on_message", "on_cfp"} =>
                       /\ (NewHooks # <<>>) <=> (key \notin DictKeys(dialogues))
                       /\ \A i \in DOMAIN NewHooks :
                              /\ NewHooks[i].handler =
                                     (IF call.handler = "on_cfp" THEN "on_new_cfp"
                                                                 ELSE "on_new_message")
                              /\ NewHooks[i].args = call.args
                       /\ key \in DictKeys(dialogues) =>
                              NewCalls = <<[kind |-> "session", handler |-> call.handler,
                                            args |-> call.args]>>]_vars

\* C12: an inbound Propose, Accept or Decline of a key without a session
\* raises KeyError: no hook is invoked, no session is created and no
\* session receives the message.
C12_NoSessionRaises ==
    [][\A key \in SessionKeys : \A msg \in DialogueMessages(key[2]) :
           \A outcome \in SessionOutcomes :
               LET call == Dispatch(RelayedMessage(key[1], msg))
               IN  SessionDispatch(key[1], msg, outcome)
                       /\ call.handler \in {"on_propose", "on_accept", "on_decline"}
                       /\ key \notin DictKeys(dialogues) =>
                       /\ ret' = Ret(call.handler, DlgPublicKey, "KeyError")
                       /\ UNCHANGED <<dialogues, dlg_created, dlg_calls>>]_vars

C12_Witness ==
    /\ Len(dlg_inbound) = 2
    /\ dlg_inbound[2].handler = "on_propose"
    /\ <<dlg_inbound[2].args[3], dlg_inbound[2].args[2]>> = <<"a", 0>>
    /\ DictKeys(dialogues) = {<<"a", 1>>}
    /\ Len(DictGet(dialogues, <<"a", 1>>).received_msg) = 1
    /\ Len(dlg_calls) = 2
    /\ ret = Ret("on_propose", DlgPublicKey, "KeyError")
    /\ dlg_task = "failed"

\* the other entries of the table are what they were
OthersKept(key) ==
    \A k \in (DictKeys(dialogues) \cup DictKeys(dialogues')) \ {key} :
        /\ k \in DictKeys(dialogues) /\ k \in DictKeys(dialogues')
        /\ DictGet(dialogues', k) = DictGet(dialogues, k)

\* C13: register_dialogue raises ValueError for a key in use and
\* unregister_dialogue raises ValueError for a key not in use, and the table
\* stays as it was; otherwise register adds that key and unregister removes
\* that key and no other, so unregistering what was just registered gives
\* the table back.
C13_RegisterUnregister ==
    [][\A key \in SessionKeys :
           LET dialogue == SingleDialogue(key[1], key[2])
           IN  /\ DialogueRegister(dialogue) =>
                      IF key \in DictKeys(dialogues)
                      THEN /\ ret' = Ret("register_dialogue", DlgPublicKey, "ValueError")
                           /\ dialogues' = dialogues
                      ELSE /\ ret' = Ret("register_dialogue", DlgPublicKey, "None")
                           /\ key \in DictKeys(dialogues')
                           /\ DictGet(dialogues', key) = dialogue
                           /\ OthersKept(key)
                           /\ SelectSeq(dialogues', LAMBDA e : e.key # key) = dialogues
               /\ DialogueUnregister(dialogue) =>
                      IF key \notin DictKeys(dialogues)
                      THEN /\ ret' = Ret("unregister_dialogue", DlgPublicKey, "ValueError")
                           /\ dialogues' = dialogues
                      ELSE /\ ret' = Ret("unregister_dialogue", DlgPublicKey, "None")
                           /\ key \notin DictKeys(dialogues')
                           /\ OthersKept(key)]_vars

C13_Witness ==
    /\ ret = Ret("unregister_dialogue", DlgPublicKey, "None")
    /\ DictKeys(dialogues) = {<<"a", 1>>}
    /\ DictGet(dialogues, <<"a", 1>>).received_msg # <<>>
    /\ dlg_created = <<<<"a", 1>>>>

\* C14: a dialogue opened without an identifier is marked initiator and its
\* identifier is not that of a dialogue open with the same peer, so that
\* registering it does not raise; a dialogue created with an identifier is
\* not marked initiator and keeps the identifier.
C14_FreshIdentifier ==
    [][\A key \in SessionKeys :
           /\ SingleDialogue(key[1], key[2]).id = key[2]
           /\ ~SingleDialogue(key[1], key[2]).is_buyer
           /\ DialogueInitiate(key[1], key[2]) =>
                  /\ ret' = Ret("initiate", DlgPublicKey, "None")
                  /\ key \notin DictKeys(dialogues)
                  /\ DictGet(dialogues', key).is_buyer]_vars

(***************************************************************************)
(* GroupDialogues: the coordinator ClientAgentGroupDialogueTest opens one  *)
(* ClientSingleDialogueTest with each agent of a search result, collects   *)
(* the price of each Propose in a GroupDialogueTest and answers.           *)
(***************************************************************************)
\* the agents a search may return, without repetition
Sellers == {"s1", "s2", "s3"}

SearchResults ==
    {<<"s1", "s2">>, <<"s2", "s1">>, <<"s1", "s2", "s3">>, <<"s3", "s1", "s2">>}

\* the prices of the proposals
Prices == {30, 50, 80}

\* GroupDialogueTest.better: the lowest price wins
GroupBetter(price1, price2) == price1 < price2

\* an update that takes no price for the first
GroupNeverFirst(g) == FALSE

\* self.first
GroupFirst(g) == g.first

\* GroupDialogues.update up to the call of finished
GroupUpdate(g, agent, price) ==
    LET counted == [g EXCEPT !.nb_answers = @ + 1]
    IN  IF GroupFirst(g)
        THEN [counted EXCEPT !.first = FALSE, !.best_price = price, !.best_agent = agent]
        ELSE IF GroupBetter(price, g.best_price)
        THEN [counted EXCEPT !.best_price = price, !.best_agent = agent]
        ELSE counted

\* self.nb_answers >= len(self.dialogues)
GroupComplete(g) == g.nb_answers >= Len(g.dialogues)

\* a finished that declines every dialogue
GroupAnswerDeclines(d, best_agent) == Decline(2, d.value, d.key, 1)

\* GroupDialogueTest.finished: the answer on the dialogue d of the group
GroupAnswer(d, best_agent) ==
    IF d.key = best_agent
    THEN Accept(2, d.value, d.key, 1)
    ELSE Decline(2, d.value, d.key, 1)

GroupAnswers(g) == [i \in 1..Len(g.dialogues) |-> GroupAnswer(g.dialogues[i], g.best_agent)]

\* GroupDialogues.add_agents: each dialogue is entered in the group under
\* its destination and registered with the agent
RECURSIVE AddAgents(_, _, _, _)
AddAgents(gds, ds, agents_, ids) ==
    IF agents_ = <<>>
    THEN [group |-> gds, agent |-> ds]
    ELSE AddAgents(DictSet(gds, Head(agents_), Head(ids)),
                   RegisterDialogue(ds, InitiatedDialogue(Head(agents_), Head(ids))),
                   Tail(agents_), Tail(ids))

\* ClientAgentGroupDialogueTest.on_search_result: a GroupDialogueTest is
\* built; each ClientSingleDialogueTest draws its identifier and sends its
\* CFP, then the dialogues are added
OnSearchResult(agents_, ids) ==
    /\ dlg_task = "running"
    /\ ~group.created
    /\ LET added == AddAgents(<<>>, dialogues, agents_, ids)
       IN  /\ group' = [NoGroup EXCEPT !.created = TRUE, !.dialogues = added.group]
           /\ dialogues' = added.agent
           /\ group_sent' = group_sent \o
                  [i \in 1..Len(agents_) |-> CFP(1, ids[i], agents_[i], 0, CfpNothing)]
    /\ UNCHANGED <<dlg_task, ret, group_updates, group_finished>>
    /\ UNCHANGED notGroupVars

\* a Propose with one proposal of a price arrives from origin: on_propose of
\* DialogueAgent looks the session up, on_propose of the session notifies
\* the group, and the update that completes the group calls finished, which
\* answers on every dialogue and stops the agent
GroupPropose(origin, dialogue_id, price) ==
    /\ dlg_task = "running"
    /\ IF <<origin, dialogue_id>> \notin DictKeys(dialogues)
       THEN /\ dlg_task' = "failed"
            /\ ret' = Ret("on_propose", DlgPublicKey, "KeyError")
            /\ UNCHANGED groupVars
       ELSE LET g == GroupUpdate(group, origin, price)
            IN  /\ group' = g
                /\ group_updates' = Append(group_updates, <<origin, price>>)
                /\ IF GroupComplete(g)
                   THEN /\ group_sent' = group_sent \o GroupAnswers(g)
                        /\ group_finished' = group_finished + 1
                        /\ dlg_task' = "None"
                   ELSE UNCHANGED <<group_sent, group_finished, dlg_task>>
                /\ UNCHANGED ret
    /\ UNCHANGED dialogues
    /\ UNCHANGED notGroupVars

NextGroup ==
    \/ \E agents_ \in SearchResults : \E ids \in [1..Len(agents_) -> TimeMids] :
           OnSearchResult(agents_, ids)
    \/ \E origin \in Sellers : \E dialogue_id \in TimeMids : \E price \in Prices :
           GroupPropose(origin, dialogue_id, price)

SpecGroup == Init /\ [][NextGroup]_vars

\* number of calls of update on one group
MaxUpdates == 3

\* GroupDialogues.update(agent, price), as the notify callback of a dialogue
\* of the group calls it for a reply that has reached it: the reply is
\* counted and compared, and finished is called when the count has reached
\* the number of dialogues
GroupNotify(agent, price) ==
    /\ group.created
    /\ agent \in DictKeys(group.dialogues)
    /\ Len(group_updates) < MaxUpdates
    /\ LET g == GroupUpdate(group, agent, price)
       IN  /\ group' = g
           /\ group_updates' = Append(group_updates, <<agent, price>>)
           /\ IF GroupComplete(g)
              THEN /\ group_sent' = group_sent \o GroupAnswers(g)
                   /\ group_finished' = group_finished + 1
                   /\ dlg_task' = "None"
              ELSE UNCHANGED <<group_sent, group_finished, dlg_task>>
    /\ UNCHANGED <<dialogues, ret>>
    /\ UNCHANGED notGroupVars

\* a group and the replies that reach its update, in any number
NextGroupUpdates ==
    \/ \E agents_ \in SearchResults : \E ids \in [1..Len(agents_) -> TimeMids] :
           OnSearchResult(agents_, ids)
    \/ \E agent \in Sellers : \E price \in Prices : GroupNotify(agent, price)

SpecGroupUpdates == Init /\ [][NextGroupUpdates]_vars

(***************************************************************************)
(* Properties of the group of dialogues.                                   *)
(***************************************************************************)
Counterparties == DictKeys(group.dialogues)

Replied == {group_updates[i][1] : i \in DOMAIN group_updates}

\* update has been called once for each counterparty
EachRepliedOnce ==
    /\ group.created
    /\ Len(group_updates) = Len(group.dialogues)
    /\ Replied = Counterparties

\* C15: once update has been called once for each counterparty, in any
\* order, best_price is a received price that no received price is better
\* than, and best_agent is a counterparty that offered best_price.
C15_BestPrice ==
    EachRepliedOnce =>
        /\ \E i \in DOMAIN group_updates : group_updates[i][2] = group.best_price
        /\ \A i \in DOMAIN group_updates : ~(group_updates[i][2] < group.best_price)
        /\ group.best_agent \in Counterparties
        /\ \E i \in DOMAIN group_updates :
               group_updates[i] = <<group.best_agent, group.best_price>>

C15_Witness ==
    /\ group_updates = <<<<"s1", 50>>, <<"s2", 30>>, <<"s3", 80>>>>
    /\ EachRepliedOnce
    /\ group.best_agent = "s2"
    /\ group.best_price = 30

\* C16: while fewer than N distinct counterparties of the group have
\* replied, finished has not been called and no Accept and no Decline has
\* been sent.
C16_PendingUntilAllReplied ==
    group.created /\ Cardinality(Replied) < Len(group.dialogues) =>
        /\ group_finished = 0
        /\ \A i \in DOMAIN group_sent : group_sent[i].type = "CFP"

\* the answers sent in a step
NewAnswers == SubSeq(group_sent', Len(group_sent) + 1, Len(group_sent'))

\* the identifier of the dialogue on which the CFP went to a counterparty
CfpIdentifier(destination) ==
    LET i == CHOOSE i \in DOMAIN group_sent :
                 group_sent[i].type = "CFP" /\ group_sent[i].destination = destination
    IN  group_sent[i].dialogue_id

MaxEnvelopes == 2

LoopPublicKey == "p"
LoopOrigin == "a"

\* the classes of the agent handed to the loop: the base Agent, whose
\* handlers are the default ones, and the test agent, which overrides them all
AgentClasses == {"Agent", "AgentTest"}

\* the agent messages a peer sends to the agent k of the loop, with the
\* message identifier msg_id
LoopMessages(k, msg_id) ==
    {Message(msg_id, 0, k, "hello"),
     CFP(msg_id, 0, k, 0, CfpNothing),
     CFP(msg_id, 1, k, 0, CfpContent),
     CFP(msg_id, 2, k, 0, CfpQuery),
     Propose(msg_id, 0, k, 1, ProposeContent),
     Propose(msg_id, 1, k, 1, ProposeProposals),
     Accept(msg_id, 0, k, 2),
     Decline(msg_id, 1, k, 2)}

\* Server.AgentMessage with no payload set
UnsetPayload(answer_id) ==
    [answer_id |-> answer_id, payload |-> "", content |-> NoContent, agents |-> <<>>]

\* Server.AgentMessage whose content has no payload set
UnsetContent(answer_id, origin) ==
    [answer_id |-> answer_id, payload |-> "content",
     content |-> [origin |-> origin, dialogue_id |-> 0, payload |-> "", content |-> "",
                  fipa |-> NoFipa],
     agents |-> <<>>]

\* Server.AgentMessage whose fipa message has no sub-message set
UnsetFipa(answer_id, origin) ==
    [answer_id |-> answer_id, payload |-> "content",
     content |-> [origin |-> origin, dialogue_id |-> 0, payload |-> "fipa", content |-> "",
                  fipa |-> NoFipa],
     agents |-> <<>>]

\* the relayed CFP of a sender whose query is a str: its payload is not set
UnsetCfp(answer_id, origin) ==
    RelayedMessage(origin, CFP(answer_id, 0, LoopPublicKey, 0, CfpText))

UnrecognizedEnvelopes(answer_id, origin) ==
    {UnsetPayload(answer_id), UnsetContent(answer_id, origin), UnsetFipa(answer_id, origin),
     UnsetCfp(answer_id, origin)}

\* a record of the log
LogRecord(level, text, arg) == [level |-> level, text |-> text, arg |-> arg]

\* a default handler that logs its warning at the debug level
WarningAtDebugLevel(method_name) ==
    LogRecord("debug", "You should implement {} in your OEFAgent class.", method_name)

\* _warning_not_implemented_method
WarningNotImplementedMethod(method_name) ==
    LogRecord("warning", "You should implement {} in your OEFAgent class.", method_name)

\* Agent.on_message .. Agent.on_search_result: the records the default
\* handler logs; on_decline's debug record starts with "on_accept"
DefaultHandler(handler) ==
    <<LogRecord("debug", IF handler = "on_decline" THEN "on_accept" ELSE handler, ""),
      WarningNotImplementedMethod(handler)>>

\* the records the loop itself logs for one envelope
LoopLog(msg) ==
    <<LogRecord("debug", "loop", msg.payload)>>
    \o (IF msg.payload = "content"
        THEN <<LogRecord("debug", "msg content", msg.content.payload)>>
             \o (IF msg.content.payload = "fipa"
                    /\ msg.content.fipa.msg \notin {"cfp", "propose", "accept", "decline"}
                 THEN <<LogRecord("warning", "Not implemented yet: fipa",
                                  msg.content.fipa.msg)>>
                 ELSE <<>>)
        ELSE <<>>)

\* the agent is constructed on the proxy
LoopConstruct(class) ==
    /\ loop_agent = "None"
    /\ loop_agent' = class
    /\ UNCHANGED <<loop_inbox, loop_task, loop_calls, loop_log, loop_arrived>>
    /\ UNCHANGED notLoopVars

\* an envelope reaches the proxy; expected is the call its sender expects
LoopArrive(envelope, expected) ==
    /\ Len(loop_arrived) < MaxEnvelopes
    /\ loop_inbox' = Append(loop_inbox, envelope)
    /\ loop_arrived' = Append(loop_arrived, expected)
    /\ UNCHANGED <<loop_agent, loop_task, loop_calls, loop_log>>
    /\ UNCHANGED notLoopVars

\* the identifier carried by the next envelope: the envelopes of one run are
\* numbered in the order of their arrival
NextAnswerId == Len(loop_arrived) + 1

\* the node answers a search
LoopArriveSearchResult ==
    \E result \in {<<>>, <<"a", "b">>} :
        LoopArrive(SearchResultMessage(NextAnswerId, result),
                   [handler |-> "on_search_result", args |-> <<NextAnswerId, result>>])

\* the node reports an error of a directory operation
LoopArriveOEFError ==
    \E operation \in OEFErrorOperations :
        LoopArrive(OEFErrorMessage(NextAnswerId, operation),
                   [handler |-> "on_oef_error", args |-> <<NextAnswerId, operation>>])

\* the node reports that a message could not be delivered
LoopArriveDialogueError ==
    \E dialogue_id \in {0, 1} :
        LoopArrive(DialogueErrorMessage(NextAnswerId, dialogue_id, LoopOrigin),
                   [handler |-> "on_dialogue_error",
                    args |-> <<NextAnswerId, dialogue_id, LoopOrigin>>])

\* the node relays an agent message of a peer
LoopArriveRelayed ==
    \E msg \in LoopMessages(LoopPublicKey, NextAnswerId) :
        LoopArrive(RelayedMessage(LoopOrigin, msg), ExpectedCall(LoopOrigin, msg))

\* an envelope with a tag that is not set reaches the proxy
LoopArriveUnrecognized ==
    \E envelope \in UnrecognizedEnvelopes(NextAnswerId, LoopOrigin) :
        LoopArrive(envelope, NoCall)

\* Agent.async_run: the loop is scheduled
LoopRun ==
    /\ loop_agent # "None"
    /\ loop_task = "None"
    /\ loop_task' = "running"
    /\ UNCHANGED <<loop_agent, loop_inbox, loop_calls, loop_log, loop_arrived>>
    /\ UNCHANGED notLoopVars

\* Agent.stop: the loop is cancelled while it waits for an envelope
LoopCancel ==
    /\ loop_task = "running"
    /\ loop_task' = "None"
    /\ UNCHANGED <<loop_agent, loop_inbox, loop_calls, loop_log, loop_arrived>>
    /\ UNCHANGED notLoopVars

\* one turn of OEFProxy.loop: the next envelope is read and dispatched; the
\* handler of the base Agent is the default one
LoopStep ==
    /\ loop_task = "running"
    /\ loop_inbox # <<>>
    /\ LET msg == Head(loop_inbox)
           call == Dispatch(msg)
       IN  /\ loop_inbox' = Tail(loop_inbox)
           /\ IF call.handler = "raise"
              THEN /\ loop_task' = "failed"
                   /\ loop_log' = loop_log \o LoopLog(msg)
                   /\ UNCHANGED loop_calls
              ELSE IF call.handler = ""
              THEN /\ loop_log' = loop_log \o LoopLog(msg)
                   /\ UNCHANGED <<loop_task, loop_calls>>
              ELSE /\ loop_calls' = Append(loop_calls, call)
                   /\ loop_log' = loop_log \o LoopLog(msg)
                                  \o (IF loop_agent = "Agent"
                                      THEN DefaultHandler(call.handler)
                                      ELSE <<>>)
                   /\ UNCHANGED loop_task
    /\ UNCHANGED <<loop_agent, loop_arrived>>
    /\ UNCHANGED notLoopVars

NextLoop ==
    \/ \E class \in AgentClasses : LoopConstruct(class)
    \/ LoopArriveSearchResult
    \/ LoopArriveOEFError
    \/ LoopArriveDialogueError
    \/ LoopArriveRelayed
    \/ LoopArriveUnrecognized
    \/ LoopRun
    \/ LoopCancel
    \/ LoopStep

SpecLoop == Init /\ [][NextLoop]_vars


\* the number of envelopes the loop has taken from the proxy
Handled == Len(loop_arrived) - Len(loop_inbox)

\* the calls the senders of the envelopes taken so far expect, in arrival order
ExpectedCalls == SelectSeq(SubSeq(loop_arrived, 1, Handled), LAMBDA c : c.handler # "")

\* the same handler with the same arguments
SameCall(c, d) == c.handler = d.handler /\ c.args = d.args

\* the loop takes the next envelope in this step
TakesEnvelope ==
    loop_task = "running" /\ loop_inbox # <<>> /\ loop_inbox' = Tail(loop_inbox)

\* C18: the handler invocations made by the loop are, one for one and in
\* arrival order, the calls expected for the envelopes it has taken whose
\* tags are set: the handler of the envelope's tags with the envelope's
\* fields, the CFP query being None, the bytes or a Query equal to the one
\* sent; and a step that takes such an envelope makes exactly that one call,
\* whatever was handled before.
C18_OneHandlerPerEnvelope ==
    /\ [](/\ Len(loop_calls) = Len(ExpectedCalls)
          /\ \A i \in 1..Len(loop_calls) : SameCall(loop_calls[i], ExpectedCalls[i]))
    /\ [][(TakesEnvelope /\ loop_arrived[Handled + 1].handler # "") =>
            (/\ Len(loop_calls') = Len(loop_calls) + 1
             /\ SubSeq(loop_calls', 1, Len(loop_calls)) = loop_calls
             /\ SameCall(loop_calls'[Len(loop_calls')], loop_arrived[Handled + 1])
             /\ loop_task' = "running")]_vars

\* a CFP carrying a Query was handed to on_cfp with an equal Query, and the
\* next envelope, an error of the node, to on_oef_error
C18_Witness ==
    /\ Len(loop_calls) = 2
    /\ loop_inbox = <<>>
    /\ loop_calls[1].handler = "on_cfp"
    /\ loop_calls[1].args[5].case = "query"
    /\ loop_calls[1].args[5] = CfpQuery
    /\ loop_calls[2].handler = "on_oef_error"
    /\ loop_calls[2].args[2] = 3

\* an envelope with a tag that is not set or not known
Unrecognized(msg) ==
    \/ msg.payload \notin {"agents", "oef_error", "dialogue_error", "content"}
    \/ /\ msg.payload = "content"
       /\ \/ msg.content.payload \notin {"content", "fipa"}
          \/ /\ msg.content.payload = "fipa"
             /\ \/ msg.content.fipa.msg \notin {"cfp", "propose", "accept", "decline"}
                \/ /\ msg.content.fipa.msg = "cfp"
                   /\ msg.content.fipa.body.case \notin {"nothing", "content", "query"}

\* C19: when the loop takes an envelope whose outer tag, content tag, FIPA
\* sub-tag or CFP payload tag is not set, no handler is invoked, nothing is
\* raised and the loop keeps running.
C19_UnrecognizedDropped ==
    [][(TakesEnvelope /\ Unrecognized(Head(loop_inbox))) =>
         (loop_calls' = loop_calls /\ loop_task' = "running")]_vars

\* the warnings of the log, in order
Warnings(log) == SelectSeq(log, LAMBDA r : r.level = "warning")

\* C20: when the loop hands an envelope to a handler of the base Agent, the
\* handler logs one warning, which names that handler, and returns: the
\* loop keeps running.
C20_DefaultHandlerWarns ==
    [][(TakesEnvelope /\ loop_agent = "Agent" /\ loop_arrived[Handled + 1].handler # "") =>
         (/\ Len(Warnings(loop_log')) = Len(Warnings(loop_log)) + 1
          /\ loop_log'[Len(loop_log')].level = "warning"
          /\ loop_log'[Len(loop_log')].arg = loop_arrived[Handled + 1].handler
          /\ loop_task' = "running")]_vars

\* the base Agent was handed a Decline and then a search result: both
\* default handlers warned and the loop is still running
C20_Witness ==
    /\ loop_agent = "Agent"
    /\ loop_task = "running"
    /\ Len(loop_calls) = 2
    /\ loop_calls[1].handler = "on_decline"
    /\ loop_calls[2].handler = "on_search_result"
    /\ Len(Warnings(loop_log)) = 2
    /\ Warnings(loop_log)[1].arg = "on_decline"
    /\ Warnings(loop_log)[2].arg = "on_search_result"


(***************************************************************************)
(* OEFNetworkProxy._receive over the byte stream of the transport: the     *)
(* node writes frames, the transport delivers the bytes in pieces of any   *)
(* size, StreamReader.read(n) returns at most n of the bytes delivered.    *)
(***************************************************************************)
MaxStreamFrames == 2
MaxPayload == 2

\* len(struct.pack("I", 0))
HeaderLen == 4

\* the values of the payload bytes
PayloadBytes == {7, 9}

\* the payloads of the frames the node writes
Payloads == UNION {[1..n -> PayloadBytes] : n \in 0..MaxPayload}

\* struct.pack("I", n): four bytes, the least significant first
Pack(n) == <<n % 256, (n \div 256) % 256, (n \div 65536) % 256, (n \div 16777216) % 256>>

\* struct.unpack("I", b)[0] of four bytes
Unpack(b) == b[1] + 256 * b[2] + 65536 * b[3] + 16777216 * b[4]

\* the frame of a payload: uint32 length || payload
Frame(payload) == Pack(Len(payload)) \o payload

\* the first k elements of a sequence and what follows them
Take(seq, k) == SubSeq(seq, 1, k)
Drop(seq, k) == SubSeq(seq, k + 1, Len(seq))

Min(a, b) == IF a <= b THEN a ELSE b

\* the node writes one more frame
RxNodeWrites(payload) ==
    /\ Len(rx_sent) < MaxStreamFrames
    /\ ~rx_eof
    /\ rx_flight' = rx_flight \o Frame(payload)
    /\ rx_sent' = Append(rx_sent, payload)
    /\ UNCHANGED <<rx_buffer, rx_pc, rx_nbytes, rx_data, rx_out, rx_eof>>
    /\ UNCHANGED notRxVars

\* the transport delivers the next k bytes to the reader
RxDelivers(k) ==
    /\ k \in 1..Len(rx_flight)
    /\ rx_buffer' = rx_buffer \o Take(rx_flight, k)
    /\ rx_flight' = Drop(rx_flight, k)
    /\ UNCHANGED <<rx_pc, rx_nbytes, rx_data, rx_out, rx_sent, rx_eof>>
    /\ UNCHANGED notRxVars

\* Agent.async_run: the loop starts and calls _receive
RxRun ==
    /\ rx_pc = "None"
    /\ rx_pc' = "header"
    /\ UNCHANGED <<rx_flight, rx_buffer, rx_nbytes, rx_data, rx_out, rx_sent, rx_eof>>
    /\ UNCHANGED notRxVars

\* StreamReader.read(n) for the header: the number of bytes it returns
ReadHeader(buffer) == Min(HeaderLen, Len(buffer))

\* the state of the loop in _receive: where it is, its locals, the buffer of
\* the reader and the messages returned so far
RxState(pc, nbytes, data, buffer, out) ==
    [pc |-> pc, nbytes |-> nbytes, data |-> data, buffer |-> buffer, out |-> out]

\* _receive: the read of the length returns, the length is unpacked; a
\* payload of length zero is returned at once
RxReadHeader(r) ==
    LET k == ReadHeader(r.buffer)
        nbytes_packed == Take(r.buffer, k)
    IN  IF k # HeaderLen
        THEN RxState("struct.error", r.nbytes, r.data, Drop(r.buffer, k), r.out)
        ELSE IF Unpack(nbytes_packed) = 0
        THEN RxState("header", 0, <<>>, Drop(r.buffer, k), Append(r.out, <<>>))
        ELSE RxState("payload", Unpack(nbytes_packed), <<>>, Drop(r.buffer, k), r.out)

\* _receive: one read of the payload loop returns; when the payload is
\* complete it is returned to the loop, which calls _receive again
RxReadPayload(r) ==
    LET k == Min(r.nbytes - Len(r.data), Len(r.buffer))
        data == r.data \o Take(r.buffer, k)
    IN  IF Len(data) < r.nbytes
        THEN RxState("payload", r.nbytes, data, Drop(r.buffer, k), r.out)
        ELSE RxState("header", 0, <<>>, Drop(r.buffer, k), Append(r.out, data))

\* the loop runs until a read finds the buffer empty and suspends, or until
\* _receive raises
RECURSIVE RxRunsOn(_)
RxRunsOn(r) ==
    IF r.buffer = <<>> \/ r.pc = "struct.error"
    THEN r
    ELSE IF r.pc = "header"
    THEN RxRunsOn(RxReadHeader(r))
    ELSE RxRunsOn(RxReadPayload(r))

\* the loop is resumed with bytes in the buffer
RxResume ==
    /\ rx_pc \in {"header", "payload"}
    /\ rx_buffer # <<>>
    /\ LET r == RxRunsOn(RxState(rx_pc, rx_nbytes, rx_data, rx_buffer, rx_out))
       IN  /\ rx_pc' = r.pc
           /\ rx_nbytes' = r.nbytes
           /\ rx_data' = r.data
           /\ rx_buffer' = r.buffer
           /\ rx_out' = r.out
    /\ UNCHANGED <<rx_flight, rx_sent, rx_eof>>
    /\ UNCHANGED notRxVars

\* Agent.stop: the loop is cancelled where it is suspended, before it is
\* resumed; the locals of the _receive in progress are gone with its frame
RxCancel ==
    /\ rx_pc \in {"header", "payload"}
    /\ rx_pc' = "None"
    /\ rx_nbytes' = 0
    /\ rx_data' = <<>>
    /\ UNCHANGED <<rx_flight, rx_buffer, rx_out, rx_sent, rx_eof>>
    /\ UNCHANGED notRxVars

\* the peer closes the connection or the connection is lost: the first k of
\* the bytes not delivered yet are still delivered, then the reader is at
\* its end
RxPeerCloses(k) ==
    /\ ~rx_eof
    /\ k \in 0..Len(rx_flight)
    /\ rx_eof' = TRUE
    /\ rx_flight' = Take(rx_flight, k)
    /\ UNCHANGED <<rx_buffer, rx_pc, rx_nbytes, rx_data, rx_out, rx_sent>>
    /\ UNCHANGED notRxVars

\* _receive is resumed at the end of the reader: StreamReader.read returns
\* no bytes; struct.unpack raises on the empty header, and the payload loop
\* appends nothing to data and reads again
RxEofRead ==
    /\ rx_pc \in {"header", "payload"}
    /\ rx_eof /\ rx_flight = <<>> /\ rx_buffer = <<>>
    /\ rx_pc' = IF rx_pc = "header" THEN "struct.error" ELSE "payload"
    /\ UNCHANGED <<rx_flight, rx_buffer, rx_nbytes, rx_data, rx_out, rx_sent, rx_eof>>
    /\ UNCHANGED notRxVars

\* the receiving loop left running
NextRx ==
    \/ \E payload \in Payloads : RxNodeWrites(payload)
    \/ \E k \in 1..(MaxStreamFrames * (HeaderLen + MaxPayload)) : RxDelivers(k)
    \/ RxRun
    \/ RxResume

SpecRx == Init /\ [][NextRx]_vars

\* the receiving loop, stopped and run again
NextRxCancel ==
    \/ NextRx
    \/ RxCancel

SpecRxCancel == Init /\ [][NextRxCancel]_vars

\* the receiving loop while the peer may close the connection; the event
\* loop resumes a task whose read at the end of the reader can return
NextRxEof ==
    \/ NextRx
    \/ \E k \in 0..(MaxStreamFrames * (HeaderLen + MaxPayload)) : RxPeerCloses(k)
    \/ RxEofRead

SpecRxEof ==
    /\ Init
    /\ [][NextRxEof]_vars
    /\ WF_vars(RxEofRead)

(***************************************************************************)
(* OEFNetworkProxy._send under several application tasks of one agent: the *)
(* tasks run on one event loop, which runs a task until it awaits.  _send  *)
(* is a plain function: it writes the length prefix, then the serialized   *)
(* message, and awaits nothing.  tx_bytes is the byte view of the frames   *)
(* the outbound operations write; wire keeps the frames of the handshake.  *)
(***************************************************************************)
MaxSends == 2

\* the event loop gives a step to task t: no other task is inside a
\* function that has not returned or awaited
TxCanRunAlways(t) == TRUE

TxCanRun(t) == \A u \in Tasks \ {t} : tx_task[u].pc = "idle"

\* an outbound operation called by task t, up to the first write of _send:
\* without a writer _send raises; otherwise struct.pack("I", len(msg)) is
\* written
TxSend(t, msg) ==
    /\ TxCanRun(t)
    /\ tx_task[t].pc = "idle"
    /\ IF ~net.writer
       THEN /\ ret' = Ret("send", NetPublicKey, "OEFConnectionError")
            /\ UNCHANGED txVars
       ELSE /\ tx_bytes' = tx_bytes \o Pack(Len(msg))
            /\ tx_calls' = Append(tx_calls, [task |-> t, msg |-> msg])
            /\ tx_task' = [tx_task EXCEPT ![t] = [pc |-> "payload", msg |-> msg]]
            /\ UNCHANGED ret
    /\ UNCHANGED netVars
    /\ UNCHANGED notTxVars

\* the second write of _send: the serialized message; _send returns
TxWritePayload(t) ==
    /\ TxCanRun(t)
    /\ tx_task[t].pc = "payload"
    /\ tx_bytes' = tx_bytes \o tx_task[t].msg
    /\ tx_task' = [tx_task EXCEPT ![t] = [pc |-> "idle", msg |-> <<>>]]
    /\ UNCHANGED <<tx_calls, ret>>
    /\ UNCHANGED netVars
    /\ UNCHANGED notTxVars

\* the tasks of a network agent that connects and calls outbound operations
NextTx ==
    \/ NetConnect
    \/ \E reply \in PhraseReplies : NetReceivePhrase(reply)
    \/ \E status \in BOOLEAN : NetReceiveStatus(status)
    \/ \E t \in Tasks : \E msg \in Payloads : Len(tx_calls) < MaxSends /\ TxSend(t, msg)
    \/ \E t \in Tasks : TxWritePayload(t)

SpecTx == Init /\ [][NextTx]_vars

\* seq is a prefix of other
IsPrefix(seq, other) == Len(seq) <= Len(other) /\ seq = Take(other, Len(seq))

\* C21: whatever the pieces the transport delivers, _receive raises nothing
\* and the messages it has returned are the payloads of the first frames
\* written, one message per frame, in order.
C21_FramesReassembled ==
    /\ rx_pc # "struct.error"
    /\ IsPrefix(rx_out, rx_sent)


\* C28: the loop may be cancelled and run again at any point; once it is
\* running and has read every byte the node has written, it is waiting for
\* the next header and the messages it has returned are exactly the
\* payloads written, each once and in order.
C28_CancelLosesNothing ==
    (rx_flight = <<>> /\ rx_buffer = <<>> /\ rx_pc \in {"header", "payload"}) =>
        (rx_pc = "header" /\ rx_out = rx_sent)


(***************************************************************************)
(* Properties of registration at the local broker.                         *)
(***************************************************************************)
\* the descriptions listed for public_key in a service directory
ListedFor(directory, public_key) ==
    IF public_key \in DictKeys(directory) THEN DictGet(directory, public_key) ELSE <<>>

\* the number of occurrences of x in a list
Count(l, x) == Cardinality({i \in DOMAIN l : l[i] = x})

\* C22: registering again the description an agent has already registered
\* changes neither the agent directory nor the service directory.
C22_RegisterIdempotent ==
    [][\A p \in RouteProxies, d \in Descriptions :
          /\ (RegisterAgent(p, d) /\ PublicKeyOf(p) \in DictKeys(agents)
                 /\ ListedFor(agents, PublicKeyOf(p)) = d)
               => agents' = agents
          /\ (RegisterService(p, d) /\ d \in ListElems(ServicesOf(PublicKeyOf(p))))
               => services' = services]_vars

\* the lists of the other agents are the same in both directories
OthersListed(before, after, public_key) ==
    \A k \in Keys : k # public_key => ListedFor(after, k) = ListedFor(before, k)

\* C23: unregister_service(agent, d) with d listed for the agent takes one
\* entry d out of the agent's list and leaves its other entries, in their
\* order, and the lists of the other agents; with d not listed it raises
\* ValueError and no list loses a description.
C23_UnregisterService ==
    [][\A p \in RouteProxies, d \in Descriptions :
          UnregisterService(p, d) =>
             LET before == ListedFor(services, PublicKeyOf(p))
                 after == ListedFor(services', PublicKeyOf(p))
             IN  /\ OthersListed(services, services', PublicKeyOf(p))
                 /\ IF d \in ListElems(before)
                    THEN /\ Count(after, d) = Count(before, d) - 1
                         /\ SelectSeq(after, LAMBDA e : e # d)
                              = SelectSeq(before, LAMBDA e : e # d)
                         /\ ret' = ret
                    ELSE /\ after = before
                         /\ ret' = Ret("unregister_service", p, "ValueError")]_vars

\* an agent registered two services and unregistered the first; its second
\* try to unregister the first one raised, and the other is still listed
C23_Witness ==
    /\ ret.op = "unregister_service"
    /\ ret.result = "ValueError"
    /\ \E p \in RouteProxies :
          /\ ret.who = p
          /\ Len(ListedFor(services, PublicKeyOf(p))) = 1


(***************************************************************************)
(* oef.schema and oef.query: data models, and the validity of a query for  *)
(* its data model.                                                         *)
(***************************************************************************)
MaxDepth == 2
MaxConstraints == 2

\* None, where a data model is optional
PyNone == [none |-> TRUE]

AttributeSchema(attribute_name, attribute_type, is_attribute_required) ==
    [name |-> attribute_name, type |-> attribute_type, required |-> is_attribute_required]

DataModel(name, attribute_schemas) ==
    [name |-> name, attribute_schemas |-> attribute_schemas]

\* DataModel.attributes_by_name: the attribute schemas by their names
AttributesByName(data_model) ==
    [name \in {data_model.attribute_schemas[i].name : i \in DOMAIN data_model.attribute_schemas} |->
        data_model.attribute_schemas[
            CHOOSE i \in DOMAIN data_model.attribute_schemas :
                data_model.attribute_schemas[i].name = name]]

\* ConstraintType.is_valid, with a type of None taken for every type
ConstraintTypeIsValidAnyType(constraint, attribute) == TRUE

\* ConstraintType.is_valid
ConstraintTypeIsValid(constraint, attribute) ==
    GetType(constraint) = "None" \/ GetType(constraint) = attribute.type

\* Constraint.is_valid
ConstraintIsValid(c, data_model) ==
    IF c.attribute_name \notin DOMAIN AttributesByName(data_model)
    THEN FALSE
    ELSE ConstraintTypeIsValid(c.constraint, AttributesByName(data_model)[c.attribute_name])

\* And.is_valid, Or.is_valid, Not.is_valid and Constraint.is_valid
RECURSIVE IsValid(_, _)
IsValid(expression, data_model) ==
    IF "and" \in DOMAIN expression
    THEN \A i \in DOMAIN expression.and : IsValid(expression.and[i], data_model)
    ELSE IF "or" \in DOMAIN expression
    THEN \A i \in DOMAIN expression.or : IsValid(expression.or[i], data_model)
    ELSE IF "not" \in DOMAIN expression
    THEN IsValid(expression.not, data_model)
    ELSE ConstraintIsValid(expression, data_model)

\* Query.is_valid
QueryIsValid(constraints, data_model) ==
    IF data_model = PyNone
    THEN TRUE
    ELSE \A i \in DOMAIN constraints : IsValid(constraints[i], data_model)

\* And._check_validity and Or._check_validity raise below two subexpressions,
\* and for a subexpression that raises; the others return
RECURSIVE CheckValidityReturns(_)
CheckValidityReturns(expression) ==
    IF "and" \in DOMAIN expression
    THEN /\ Len(expression.and) >= 2
         /\ \A i \in DOMAIN expression.and : CheckValidityReturns(expression.and[i])
    ELSE IF "or" \in DOMAIN expression
    THEN /\ Len(expression.or) >= 2
         /\ \A i \in DOMAIN expression.or : CheckValidityReturns(expression.or[i])
    ELSE TRUE

Returned(value) == [raised |-> "None", value |-> value]
Raised(exception, message) == [raised |-> exception, message |-> message]

\* Query.__init__ with Query._check_validity
QueryInit(constraints, model) ==
    IF Len(constraints) < 1
    THEN Raised("ValueError", "empty list of constraints")
    ELSE IF ~QueryIsValid(constraints, model)
    THEN Raised("ValueError", "the query is not valid for the given data model")
    ELSE Returned([constraints |-> constraints, model |-> model])


\* AttributeSchema.to_pb: the type by _attribute_type_to_pb
AttributeSchemaToPb(attribute) ==
    [name |-> attribute.name,
     type |-> CASE attribute.type = "bool" -> "BOOL"
                [] attribute.type = "int" -> "INT"
                [] attribute.type = "float" -> "DOUBLE"
                [] attribute.type = "str" -> "STRING",
     required |-> attribute.required]

\* AttributeSchema.from_pb: the type by the reversed mapping
AttributeSchemaFromPb(attribute) ==
    AttributeSchema(attribute.name,
                    CASE attribute.type = "BOOL" -> "bool"
                      [] attribute.type = "INT" -> "int"
                      [] attribute.type = "DOUBLE" -> "float"
                      [] attribute.type = "STRING" -> "str",
                    attribute.required)

\* DataModel.to_pb
DataModelToPb(data_model) ==
    [name |-> data_model.name,
     attributes |-> [i \in DOMAIN data_model.attribute_schemas |->
                        AttributeSchemaToPb(data_model.attribute_schemas[i])]]

\* DataModel.from_pb
DataModelFromPb(model) ==
    DataModel(model.name,
              [i \in DOMAIN model.attributes |-> AttributeSchemaFromPb(model.attributes[i])])

\* ConstraintExpr._to_pb with And.to_pb, Or.to_pb, Not.to_pb
RECURSIVE ExprToPb(_)
ExprToPb(expression) ==
    IF "and" \in DOMAIN expression
    THEN [and_ |-> [expr |-> [i \in DOMAIN expression.and |-> ExprToPb(expression.and[i])]]]
    ELSE IF "or" \in DOMAIN expression
    THEN [or_ |-> [expr |-> [i \in DOMAIN expression.or |-> ExprToPb(expression.or[i])]]]
    ELSE IF "not" \in DOMAIN expression
    THEN [not_ |-> [expr |-> ExprToPb(expression.not)]]
    ELSE [constraint |-> ConstraintToPb(expression)]

\* ConstraintExpr._from_pb with And.from_pb, Or.from_pb, Not.from_pb: the
\* expression the constructors are called for
RECURSIVE ExprFromPb(_)
ExprFromPb(expression_pb) ==
    IF "and_" \in DOMAIN expression_pb
    THEN And([i \in DOMAIN expression_pb.and_.expr |-> ExprFromPb(expression_pb.and_.expr[i])])
    ELSE IF "or_" \in DOMAIN expression_pb
    THEN Or([i \in DOMAIN expression_pb.or_.expr |-> ExprFromPb(expression_pb.or_.expr[i])])
    ELSE IF "not_" \in DOMAIN expression_pb
    THEN Not(ExprFromPb(expression_pb.not_.expr))
    ELSE ConstraintFromPb(expression_pb.constraint)

\* Query.to_pb: the Query.Model message of a query, with its data model if
\* it has one
ToQueryModel(query) ==
    IF query.model # PyNone
    THEN [constraints |-> [i \in DOMAIN query.constraints |-> ExprToPb(query.constraints[i])],
          model |-> DataModelToPb(query.model)]
    ELSE [constraints |-> [i \in DOMAIN query.constraints |-> ExprToPb(query.constraints[i])]]

\* Query.from_pb: the constructors of the subexpressions run first, then
\* the one of the query
FromQueryModel(query) ==
    LET constraints == [i \in DOMAIN query.constraints |-> ExprFromPb(query.constraints[i])]
    IN  IF \E i \in DOMAIN constraints : ~CheckValidityReturns(constraints[i])
        THEN Raised("ValueError", "number of subexpression must be at least 2")
        ELSE QueryInit(constraints,
                       IF "model" \in DOMAIN query
                       THEN DataModelFromPb(query.model)
                       ELSE PyNone)


\* the constraints, subexpressions, data models and lists of constraints
\* queries are made of
TailConstraints ==
    {Constraint("foo", Eq(IntValue(0))), Constraint("bar", In(<<>>))}

LeafConstraints ==
    TailConstraints \cup
        {Constraint("bar", Eq(IntValue(0))),
         Constraint("foo", Range(<<StrValue("a"), StrValue("b")>>))}

RECURSIVE Expressions(_)
Expressions(depth) ==
    IF depth = 0
    THEN LeafConstraints
    ELSE LET below == Expressions(depth - 1)
         IN  below
             \cup {Not(e) : e \in below}
             \cup {And(<<c, e>>) : c \in TailConstraints, e \in below}
             \cup {Or(<<c, e>>) : c \in TailConstraints, e \in below}

QueryExpressions == Expressions(MaxDepth)

\* a list of constraints: a subexpression, then constraints
RECURSIVE ListsOf(_)
ListsOf(length) ==
    IF length = 0 THEN {<<>>}
    ELSE IF length = 1 THEN {<<e>> : e \in QueryExpressions}
    ELSE {Append(l, c) : l \in ListsOf(length - 1), c \in TailConstraints}

ConstraintLists == UNION {ListsOf(length) : length \in 0..MaxConstraints}

DataModels ==
    {DataModel("m", <<>>),
     DataModel("m", <<AttributeSchema("foo", "int", TRUE)>>),
     DataModel("m", <<AttributeSchema("foo", "str", TRUE),
                      AttributeSchema("bar", "bool", FALSE)>>)}

\* what arrives for a query: the messages of lists of constraints, and of
\* conjunctions and disjunctions of a single subexpression
WireLists ==
    ConstraintLists \cup
        {<<And(<<c>>)>> : c \in TailConstraints} \cup
        {<<Not(Or(<<c>>))>> : c \in TailConstraints}

\* no call is in progress
Idle == api_call.fn = "None"

\* Query(constraints, model)
QueryConstruct(constraints, model) ==
    /\ Idle
    /\ api_call' = [fn |-> "Query", constraints |-> constraints, model |-> model]
    /\ api_ret' = QueryInit(constraints, model)
    /\ UNCHANGED <<notApiVars, ret>>

\* Query.from_pb of the message of (constraints, model)
QueryDecode(constraints, model) ==
    /\ Idle
    /\ api_call' = [fn |-> "Query.from_pb", constraints |-> constraints, model |-> model]
    /\ api_ret' = FromQueryModel(ToQueryModel([constraints |-> constraints, model |-> model]))
    /\ UNCHANGED <<notApiVars, ret>>

\* the caller is done with what the call returned or raised
ApiReturn ==
    /\ api_call.fn # "None"
    /\ api_call' = [fn |-> "None"]
    /\ api_ret' = [raised |-> "None"]
    /\ UNCHANGED <<notApiVars, ret>>

NextQuery ==
    \/ /\ Idle
       /\ \E constraints \in ConstraintLists :
             \/ QueryConstruct(constraints, PyNone)
             \/ \E model \in DataModels : QueryConstruct(constraints, model)
    \/ /\ Idle
       /\ \E constraints \in WireLists :
             \/ QueryDecode(constraints, PyNone)
             \/ \E model \in DataModels : QueryDecode(constraints, model)
    \/ ApiReturn

SpecQuery == Init /\ [][NextQuery]_vars

\* the constraints at any depth of a subexpression
RECURSIVE Leaves(_)
Leaves(expression) ==
    IF "and" \in DOMAIN expression
    THEN UNION {Leaves(expression.and[i]) : i \in DOMAIN expression.and}
    ELSE IF "or" \in DOMAIN expression
    THEN UNION {Leaves(expression.or[i]) : i \in DOMAIN expression.or}
    ELSE IF "not" \in DOMAIN expression
    THEN Leaves(expression.not)
    ELSE {expression}

\* the constraint names an attribute the model has not, or requires a type
\* that is not the declared one
Mismatch(c, model) ==
    \A i \in DOMAIN model.attribute_schemas :
        \/ model.attribute_schemas[i].name # c.attribute_name
        \/ /\ GetType(c.constraint) # "None"
           /\ GetType(c.constraint) # model.attribute_schemas[i].type

Invalid(constraints, model) ==
    \/ constraints = <<>>
    \/ /\ model # PyNone
       /\ \E i \in DOMAIN constraints : \E c \in Leaves(constraints[i]) : Mismatch(c, model)

Values ==
    {IntValue(0), IntValue(1), StrValue("a"), BoolValue(TRUE), FloatValue(1)}

ConstraintTypes ==
    UNION {{Eq(v), NotEq(v), Lt(v), LtEq(v), Gt(v), GtEq(v)} : v \in Values}
        \cup {Range(<<IntValue(0), IntValue(1)>>), Range(<<IntValue(1), IntValue(1)>>),
              Range(<<StrValue("a"), StrValue("b")>>)}
        \cup UNION {{In(values), NotIn(values)} :
                        values \in {<<>>, <<IntValue(0)>>, <<StrValue("a"), StrValue("b")>>}}

CheckedDescriptions ==
    {Description([foo |-> v]) : v \in Values} \cup {Description([bar |-> IntValue(0)])}

\* Constraint("foo", constraint).check(description)
ConstraintChecks(constraint, description) ==
    /\ Idle
    /\ api_call' = [fn |-> "Constraint.check", constraint |-> Constraint("foo", constraint),
                    description |-> description]
    /\ api_ret' = Returned(ConstraintCheck(Constraint("foo", constraint), description))
    /\ UNCHANGED <<notApiVars, ret>>

NextCheck ==
    \/ /\ Idle
       /\ \E constraint \in ConstraintTypes, description \in CheckedDescriptions :
             ConstraintChecks(constraint, description)
    \/ ApiReturn

SpecCheck == Init /\ [][NextCheck]_vars

\* C25: Constraint.check returns False when the attribute is absent or the
\* type of its value differs from the type the constraint type requires,
\* and otherwise the constraint type's own check of the value; a constraint
\* type that requires the type None rejects no present value for its type
C25_CheckByType ==
    api_call.fn = "Constraint.check" =>
        LET c == api_call.constraint
            values == api_call.description.values
        IN  api_ret.value =
                IF c.attribute_name \notin DOMAIN values
                THEN FALSE
                ELSE IF /\ GetType(c.constraint) # "None"
                        /\ GetType(c.constraint) # values[c.attribute_name].type
                THEN FALSE
                ELSE ConstraintTypeCheck(c.constraint, values[c.attribute_name])


(***************************************************************************)
(* oef.schema: Description(attribute_values, data_model).  The values are  *)
(* the items of the dictionary, in insertion order; they are of the types  *)
(* in ATTRIBUTE_TYPES.                                                     *)
(***************************************************************************)
Item(key, value) == [key |-> key, value |-> value]

\* isinstance(value, attribute_type): bool is a subclass of int
IsInstance(value, attribute_type) ==
    \/ value.type = attribute_type
    \/ value.type = "bool" /\ attribute_type = "int"

\* generate_schema
GenerateSchema(model_name, attribute_values) ==
    DataModel(model_name,
              [i \in DOMAIN attribute_values |->
                  AttributeSchema(attribute_values[i].key, attribute_values[i].value.type, TRUE)])

\* Description._check_consistency: the message of the exception it raises,
\* None when it returns
CheckConsistency(values, data_model) ==
    LET schemas == data_model.attribute_schemas
        keys == {values[i].key : i \in DOMAIN values}
    IN  IF \E i \in DOMAIN schemas : schemas[i].required /\ schemas[i].name \notin keys
        THEN "Missing required attribute."
        ELSE IF \E k \in keys : \A i \in DOMAIN schemas : schemas[i].name # k
        THEN "Have extra attribute not in schema"
        ELSE IF \E i \in DOMAIN schemas : \E j \in DOMAIN values :
                    /\ values[j].key = schemas[i].name
                    /\ ~IsInstance(values[j].value, schemas[i].type)
        THEN "Attribute has incorrect type"
        ELSE "None"

\* Description.__init__
DescriptionInit(attribute_values, data_model) ==
    IF data_model # PyNone
    THEN IF CheckConsistency(attribute_values, data_model) # "None"
         THEN Raised("AttributeInconsistencyException",
                     CheckConsistency(attribute_values, data_model))
         ELSE Returned([values |-> attribute_values, data_model |-> data_model])
    ELSE Returned([values |-> attribute_values,
                   data_model |-> GenerateSchema("", attribute_values)])

\* the dictionaries of values and the data models descriptions are made of
AttributeValues ==
    {<<>>}
        \cup {<<Item(k, v)>> : k \in {"foo", "bar"}, v \in Values}
        \cup {<<Item("foo", v), Item("bar", w)>> : v \in Values, w \in Values}

DescriptionModels ==
    DataModels \cup
        {DataModel("m", <<AttributeSchema("foo", "int", TRUE),
                          AttributeSchema("bar", "str", FALSE)>>),
         DataModel("m", <<AttributeSchema("foo", "float", FALSE)>>),
         DataModel("m", <<AttributeSchema("foo", "bool", FALSE),
                          AttributeSchema("bar", "int", TRUE)>>)}

\* Description(attribute_values, data_model)
DescriptionConstruct(attribute_values, data_model) ==
    /\ Idle
    /\ api_call' = [fn |-> "Description", attribute_values |-> attribute_values,
                    data_model |-> data_model]
    /\ api_ret' = DescriptionInit(attribute_values, data_model)
    /\ UNCHANGED <<notApiVars, ret>>

NextDescription ==
    \/ /\ Idle
       /\ \E attribute_values \in AttributeValues :
             \/ DescriptionConstruct(attribute_values, PyNone)
             \/ \E data_model \in DescriptionModels :
                   DescriptionConstruct(attribute_values, data_model)
    \/ ApiReturn

SpecDescription == Init /\ [][NextDescription]_vars

\* every required attribute of the model has a value, every value has an
\* attribute of its name, and this attribute is of the type of the value
Consistent(values, data_model) ==
    LET schemas == data_model.attribute_schemas
    IN  /\ \A i \in DOMAIN schemas :
               schemas[i].required => \E j \in DOMAIN values : values[j].key = schemas[i].name
        /\ \A j \in DOMAIN values :
               \E i \in DOMAIN schemas :
                   /\ schemas[i].name = values[j].key
                   /\ schemas[i].type = values[j].value.type

\* C26: a description with a model is constructed only if it is consistent
\* with the model, otherwise AttributeInconsistencyException is raised,
\* and the values are kept as given; with no model the model has one
\* required attribute per value, of the type of the value, and the
\* description is consistent with it
C26_DescriptionConsistent ==
    api_call.fn = "Description" =>
        /\ api_call.data_model # PyNone =>
               /\ api_ret.raised = "None" <=>
                      Consistent(api_call.attribute_values, api_call.data_model)
               /\ api_ret.raised # "None" =>
                      api_ret.raised = "AttributeInconsistencyException"
               /\ api_ret.raised = "None" =>
                      /\ api_ret.value.values = api_call.attribute_values
                      /\ api_ret.value.data_model = api_call.data_model
        /\ api_call.data_model = PyNone =>
               /\ api_ret.raised = "None"
               /\ api_ret.value.values = api_call.attribute_values
               /\ Len(api_ret.value.data_model.attribute_schemas) =
                      Len(api_call.attribute_values)
               /\ \A i \in DOMAIN api_call.attribute_values :
                      api_ret.value.data_model.attribute_schemas[i] =
                          AttributeSchema(api_call.attribute_values[i].key,
                                          api_call.attribute_values[i].value.type, TRUE)
               /\ Consistent(api_ret.value.values, api_ret.value.data_model)


(***************************************************************************)
(* to_pb then from_pb of constraint types, constraint expressions,         *)
(* queries, data models and descriptions.                                  *)
(***************************************************************************)
\* Description._to_key_value_pb with int tried before bool: a bool is an int
ToKeyValuePbIntFirst(key, value) ==
    [key |-> key,
     value |-> CASE value.type = "bool" -> [i |-> IF value.bool THEN 1 ELSE 0]
                 [] value.type = "int" -> [i |-> value.int]
                 [] value.type = "float" -> [d |-> value.float]
                 [] value.type = "str" -> [s |-> value.str]]

\* Description._to_key_value_pb
ToKeyValuePb(key, value) ==
    [key |-> key,
     value |-> CASE value.type = "bool" -> [b |-> value.bool]
                 [] value.type = "int" -> [i |-> value.int]
                 [] value.type = "float" -> [d |-> value.float]
                 [] value.type = "str" -> [s |-> value.str]]

\* Description._extract_value
ExtractValue(value) ==
    IF "s" \in DOMAIN value THEN StrValue(value.s)
    ELSE IF "b" \in DOMAIN value THEN BoolValue(value.b)
    ELSE IF "i" \in DOMAIN value THEN IntValue(value.i)
    ELSE FloatValue(value.d)

\* Description.to_pb
DescriptionToPb(description) ==
    [model |-> DataModelToPb(description.data_model),
     values |-> [i \in DOMAIN description.values |->
                    ToKeyValuePb(description.values[i].key, description.values[i].value)]]

\* Description.from_pb
DescriptionFromPb(query_instance) ==
    DescriptionInit([i \in DOMAIN query_instance.values |->
                        Item(query_instance.values[i].key,
                             ExtractValue(query_instance.values[i].value))],
                    DataModelFromPb(query_instance.model))

\* ConstraintType.to_pb and from_pb of the concrete constraint type
ConstraintTypeToPb(constraint) ==
    IF "relation" \in DOMAIN constraint THEN RelationToPb(constraint)
    ELSE IF "range" \in DOMAIN constraint THEN RangeToPb(constraint)
    ELSE IF "set" \in DOMAIN constraint THEN SetToPb(constraint)
    ELSE DistanceToPb(constraint)

ConstraintTypeFromPb(constraint, constraint_pb) ==
    IF "relation" \in DOMAIN constraint THEN RelationFromPb(constraint_pb)
    ELSE IF "range" \in DOMAIN constraint THEN RangeFromPb(constraint_pb)
    ELSE IF "set" \in DOMAIN constraint THEN SetFromPb(constraint_pb)
    ELSE DistanceFromPb(constraint_pb)

\* the constraint types that are encoded: those over floats, bools and
\* locations too
EncodedConstraintTypes ==
    ConstraintTypes \cup {Range(<<FloatValue(0), FloatValue(1)>>),
                          In(<<BoolValue(TRUE), BoolValue(FALSE)>>),
                          NotIn(<<FloatValue(1)>>),
                          Eq(LocationValue(0, 1)), NotEq(LocationValue(1, 0)),
                          Range(<<LocationValue(0, 0), LocationValue(1, 1)>>),
                          In(<<LocationValue(0, 1)>>), NotIn(<<LocationValue(1, 1)>>),
                          Distance(LocationValue(0, 1), 1)}

\* cls.from_pb(x.to_pb()) of an object x of the class
Decoded(class, original, decoded) ==
    /\ Idle
    /\ api_call' = [fn |-> "from_pb", class |-> class, original |-> original]
    /\ api_ret' = decoded
    /\ UNCHANGED <<notApiVars, ret>>

RoundTripConstraintType(constraint) ==
    Decoded("ConstraintType", constraint,
            Returned(ConstraintTypeFromPb(constraint, ConstraintTypeToPb(constraint))))

RoundTripConstraintExpr(expression) ==
    Decoded("ConstraintExpr", expression, Returned(ExprFromPb(ExprToPb(expression))))

RoundTripQuery(constraints, model) ==
    /\ Idle
    /\ QueryInit(constraints, model).raised = "None"
    /\ Decoded("Query", QueryInit(constraints, model).value,
               FromQueryModel(ToQueryModel(QueryInit(constraints, model).value)))

RoundTripDataModel(data_model) ==
    Decoded("DataModel", data_model, Returned(DataModelFromPb(DataModelToPb(data_model))))

RoundTripDescription(attribute_values, data_model) ==
    /\ Idle
    /\ DescriptionInit(attribute_values, data_model).raised = "None"
    /\ Decoded("Description", DescriptionInit(attribute_values, data_model).value,
               DescriptionFromPb(DescriptionToPb(
                   DescriptionInit(attribute_values, data_model).value)))

NextCodec ==
    \/ /\ Idle
       /\ \E constraint \in EncodedConstraintTypes : RoundTripConstraintType(constraint)
    \/ /\ Idle
       /\ \E expression \in QueryExpressions \cup
                             {Not(Constraint("foo", c)) : c \in EncodedConstraintTypes} :
             RoundTripConstraintExpr(expression)
    \/ /\ Idle
       /\ \E constraints \in ConstraintLists :
             \/ RoundTripQuery(constraints, PyNone)
             \/ \E model \in DataModels : RoundTripQuery(constraints, model)
    \/ /\ Idle
       /\ \E data_model \in DescriptionModels : RoundTripDataModel(data_model)
    \/ /\ Idle
       /\ \E attribute_values \in AttributeValues :
             \/ RoundTripDescription(attribute_values, PyNone)
             \/ \E data_model \in DescriptionModels :
                   RoundTripDescription(attribute_values, data_model)
    \/ ApiReturn

SpecCodec == Init /\ [][NextCodec]_vars

\* C27: decoding the encoding of a constraint type, a constraint
\* expression, a query, a data model or a description returns an object
\* equal to the original, every value with the type it had
C27_RoundTrip ==
    api_call.fn = "from_pb" =>
        /\ api_ret.raised = "None"
        /\ api_ret.value = api_call.original

\* a description with a bool and a float comes back with a bool and a float
C27_Witness ==
    /\ api_call.fn = "from_pb"
    /\ api_call.class = "Description"
    /\ api_call.original.values =
           <<Item("foo", BoolValue(TRUE)), Item("bar", FloatValue(1))>>
    /\ api_ret.raised = "None"
    /\ api_ret.value.values[1].value.type = "bool"
    /\ api_ret.value.values[2].value.type = "float"


(***************************************************************************)
(* LocalNode.stop and the loop of the broker.                              *)
(***************************************************************************)
\* C29: LocalNode.stop ends the loop of the broker, which stays ended; a
\* message is taken from the intake queue by the running loop only, and in
\* the step that takes it it is put on the mailbox of its destination; once
\* the loop has ended no message is taken and no mailbox gets a message
C29_StopEndsLoop ==
    [][/\ NodeStop => node_task' \in {"done", "failed"}
       /\ node_task \in {"done", "failed"} =>
              /\ node_task' = node_task
              /\ ~Relays
              /\ \A h \in DOMAIN mailbox \cap DOMAIN mailbox' :
                     Len(mailbox'[h]) <= Len(mailbox[h])
       /\ Relays =>
              /\ node_task = "running"
              /\ LET S == Head(read_queue)[1]
                     msg == Head(read_queue)[2]
                 IN  msg.destination \in DOMAIN queues =>
                         mailbox'[queues[msg.destination]] =
                             Append(mailbox[queues[msg.destination]], RelayedMessage(S, msg))
      ]_vars

\* the broker has been stopped with a message left in the intake queue
C29_Witness ==
    /\ node_task = "done"
    /\ read_queue # <<>>
    /\ \E h \in DOMAIN mailbox : mailbox[h] = <<>>


(***************************************************************************)
(* Agent.async_run called again: one loop per agent.                       *)
(***************************************************************************)
\* the loop of the agent is scheduled: _task is set
Scheduled(p) == agent_task[p].state # "None"

\* the submissions handed to the handlers of any agent, in one sequence
Dispatched == h_received["p1"] \o h_received["p3"]

\* C30: async_run called while the loop of the agent is scheduled returns
\* after the warning "Agent ... already scheduled for running." and leaves
\* the task, the queues and the handler invocations as they were, so no
\* second loop is started; the loop that takes a message is the one task
\* of its agent, it takes the head of the queue it awaits, which is then no
\* longer in the queue; and no submission is handed to a handler twice.
C30_OneLoopPerAgent ==
    /\ [][\A p \in RouteProxies :
             /\ (Scheduled(p) /\ AsyncRun(p)) =>
                    /\ ret' = Ret("async_run", p, "already scheduled")
                    /\ UNCHANGED <<agent_task, mailbox, received, h_mailbox, h_received>>
             /\ (Scheduled(p) /\ Scheduled(p)' /\ agent_task[p] # agent_task'[p]) =>
                    LoopDeliver(p)
             /\ received'[p] # received[p] =>
                    /\ agent_task[p].state = "waiting"
                    /\ h_received'[p] = Append(h_received[p], Head(h_mailbox[agent_task[p].queue]))
                    /\ h_mailbox'[agent_task[p].queue] = Tail(h_mailbox[agent_task[p].queue])
         ]_vars
    /\ [](\A i, j \in 1..Len(Dispatched) : Dispatched[i] = Dispatched[j] => i = j)

\* async_run has been called on an agent whose loop was scheduled, and the
\* loop has dispatched a message since it was first run
C30_Witness ==
    \E p \in RouteProxies :
        /\ ret = Ret("async_run", p, "already scheduled")
        /\ agent_task[p].state = "waiting"
        /\ received[p] # <<>>


(***************************************************************************)
(* The lock of the local broker and the directory a search reads.          *)
(***************************************************************************)
\* a register or unregister call acts in this step
Mutates == agents' # agents \/ services' # services \/ lock' # lock

\* the public keys of the search result put last on the mailbox of p
LastResult(p) ==
    LET box == mailbox'[queues[PublicKeyOf(p)]] IN ListElems(box[Len(box)].agents)

\* C31: a register or unregister call changes a directory only if it found
\* the lock free, and the lock is held after it only if the call raised, so
\* no two of them hold it together; a search changes neither directory nor
\* the lock, and its result lists exactly the keys with a matching
\* description in the directory as the last complete call left it.
C31_RegistryExclusive ==
    [][/\ Mutates =>
            /\ ~lock
            /\ mailbox' = mailbox
            /\ lock' => ret' # ret /\ ret'.result \in {"KeyError", "ValueError"}
       /\ \A p \in RouteProxies, i \in SearchIds, q \in Queries :
            /\ (SearchAgents(p, i, q) /\ PublicKeyOf(p) \in DOMAIN queues) =>
                   /\ ~Mutates
                   /\ LastResult(p) = MatchingAgents(q)
            /\ (SearchServices(p, i, q) /\ PublicKeyOf(p) \in DOMAIN queues) =>
                   /\ ~Mutates
                   /\ LastResult(p) = MatchingServices(q)
      ]_vars

\* a search result that lists an agent is waiting on a mailbox, the agent has
\* been unregistered since, and a failed unregister holds the lock
C31_Witness ==
    /\ lock
    /\ \E h \in DOMAIN mailbox :
          /\ mailbox[h] # <<>>
          /\ mailbox[h][1].payload = "agents"
          /\ \E k \in ListElems(mailbox[h][1].agents) :
                k \notin DictKeys(agents) /\ k \notin DictKeys(services)


(***************************************************************************)
(* Registration, search and relaying at one broker: what a call leaves     *)
(* alone.                                                                  *)
(***************************************************************************)
\* one description, one query and one message
DirectoryDescription == Description([foo |-> IntValue(15), bar |-> StrValue("BAR")])

DirectoryQuery == Query(<<Constraint("foo", Gt(IntValue(10)))>>)

NextDirectory ==
    \/ \E p \in RouteProxies : LocalConnect(p)
    \/ \E p \in RouteProxies : RegisterAgent(p, DirectoryDescription)
    \/ \E p \in RouteProxies : RegisterService(p, DirectoryDescription)
    \/ \E p \in RouteProxies : UnregisterAgent(p)
    \/ \E p \in RouteProxies : UnregisterService(p, DirectoryDescription)
    \/ \E p \in RouteProxies, i \in SearchIds : SearchAgents(p, i, DirectoryQuery)
    \/ \E p \in RouteProxies, i \in SearchIds : SearchServices(p, i, DirectoryQuery)
    \/ sent < MaxRouted /\ LocalSend("p1", Message(0, 1, "b", "hello"))
    \/ NodeRun
    \/ ProcessMessage

SpecDirectory == Init /\ [][NextDirectory]_vars

\* the entries of the agents other than public_key are the same
OthersEntries(before, after, public_key) ==
    \A k \in Keys \ {public_key} :
        /\ k \in DictKeys(before) <=> k \in DictKeys(after)
        /\ k \in DictKeys(before) => DictGet(after, k) = DictGet(before, k)

\* the mailboxes and the intake queue of the broker are the same
BrokerQueuesUnchanged == UNCHANGED <<queues, mailbox, read_queue>>

\* C32: a register or unregister call of an agent leaves the entries of the
\* other agents in the directory it targets, the other directory, the
\* mailboxes and the intake queue as they were, also when it raises; and a
\* step that changes a mailbox or the intake queue, as a search, a send or a
\* relay does, changes no directory.
C32_RegistryFrame ==
    [][/\ \A p \in RouteProxies :
            /\ ((\E d \in Descriptions : RegisterAgent(p, d)) \/ UnregisterAgent(p)) =>
                   /\ OthersEntries(agents, agents', PublicKeyOf(p))
                   /\ services' = services
                   /\ BrokerQueuesUnchanged
            /\ (\E d \in Descriptions : RegisterService(p, d) \/ UnregisterService(p, d)) =>
                   /\ OthersEntries(services, services', PublicKeyOf(p))
                   /\ agents' = agents
                   /\ BrokerQueuesUnchanged
       /\ ~BrokerQueuesUnchanged => UNCHANGED <<agents, services>>
      ]_vars

\* both agents are registered in both directories, a message is waiting in
\* the intake queue, a search result is on a mailbox, and the last call was
\* an unregister_service that raised
C32_Witness ==
    /\ DictKeys(agents) = {"a", "b"}
    /\ {"a", "b"} \subseteq DictKeys(services)
    /\ read_queue # <<>>
    /\ \E h \in DOMAIN mailbox : mailbox[h] # <<>>
    /\ ret.op = "unregister_service"


(***************************************************************************)
(* OEFNetworkProxy.is_connected and the handshake.                         *)
(***************************************************************************)
\* C33: when no connect() is in progress, is_connected() of the network
\* proxy is True only after a handshake that ended with the status true;
\* after a refusal at step 2 or a status false at step 4 it is False, and a
\* connect() called then opens a connection and sends the identifier again.
C33_ConnectedAfterHandshake ==
    /\ []((net_pc = "idle" /\ NetIsConnected) => handshaken)
    /\ [][(NetConnect /\ ~handshaken /\ net_pc = "idle") =>
             (net_pc' = "phrase" /\ wire' = <<Sent("ID", <<NetPublicKey>>)>>)]_vars


(***************************************************************************)
(* OEFNetworkProxy._receive at the end of the stream.                      *)
(***************************************************************************)
\* the loop is in _receive, the peer has closed the connection and every
\* byte it wrote has been delivered and read
AtEndOfStream ==
    /\ rx_pc \in {"header", "payload"}
    /\ rx_eof /\ rx_flight = <<>> /\ rx_buffer = <<>>

\* C39: a _receive that is in progress when the stream has ended, before
\* its frame is complete, ends: it returns or raises, and the loop does not
\* stay in _receive for ever.
C39_ReceiveTerminates == AtEndOfStream ~> (rx_pc \notin {"header", "payload"})


(***************************************************************************)
(* GroupDialogues.finished and the replies that follow the last one.       *)
(***************************************************************************)
\* C37: finished is called at most once for a group, whatever the number
\* of replies that reach update, repeated and late ones included.
C37_FinishedOnce == group_finished <= 1


(***************************************************************************)
(* Agent.async_run after the loop has ended with an exception.             *)
(***************************************************************************)
\* C38: async_run returns with the warning only while the loop of the agent
\* is running; when the loop has ended because a handler raised, as
\* on_propose does for a dialogue key that is not registered, async_run
\* starts a new loop although stop() has not been called.
C38_RunAfterFailure ==
    [][DialogueAsyncRun =>
           IF dlg_task = "running"
           THEN ret' = Ret("async_run", DlgPublicKey, "already scheduled") /\ UNCHANGED dlg_task
           ELSE dlg_task' = "running"]_vars


(***************************************************************************)
(* Connecting again to the local broker after a disconnection.             *)
(***************************************************************************)
\* no connected proxy holds the public key
Released(public_key) ==
    \A q \in Proxies : PublicKeyOf(q) = public_key => ~LocalIsConnected(q)

\* C34: once the agent that held an identifier has disconnected, the
\* identifier is free at the broker: a connect() of a proxy with that
\* identifier, the same or another, succeeds and the proxy reads from the
\* mailbox the broker keeps for the identifier.
C34_ReleasedOnDisconnect ==
    [][\A p \in Proxies :
           (Released(PublicKeyOf(p)) /\ LocalConnect(p)) =>
               /\ ret' = Ret("connect", p, "True")
               /\ proxy'[p].connection
               /\ PublicKeyOf(p) \in DOMAIN queues'
               /\ proxy'[p].read_queue = queues'[PublicKeyOf(p)]]_vars


(***************************************************************************)
(* An unregister call that fails at the local broker.                      *)
(***************************************************************************)
\* C35: an unregister_agent of an agent that is not registered and an
\* unregister_service of a description that is not registered leave both
\* directories as they were and the lock of the broker free, so that the
\* calls that follow can take it.
C35_FailedUnregister ==
    [][\A p \in RouteProxies :
           /\ (UnregisterAgent(p) /\ PublicKeyOf(p) \notin DictKeys(agents)) =>
                  (UNCHANGED <<agents, services>> /\ ~lock')
           /\ \A d \in Descriptions :
                  (UnregisterService(p, d) /\ d \notin ListElems(ServicesOf(PublicKeyOf(p)))) =>
                      (UNCHANGED <<agents, services>> /\ ~lock')]_vars


(***************************************************************************)
(* The identifiers a local search returns and the mailboxes of the broker. *)
(***************************************************************************)
\* the public keys of the proxies that are connected
ConnectedKeys == {PublicKeyOf(p) : p \in {q \in Proxies : LocalIsConnected(q)}}

\* C36: every identifier listed in a search result has a mailbox at the
\* broker, and the two directories have entries only for identifiers of
\* agents that are connected.
C36_SearchRoutable ==
    /\ \A h \in DOMAIN mailbox : \A i \in DOMAIN mailbox[h] :
          mailbox[h][i].payload = "agents" =>
              ListElems(mailbox[h][i].agents) \subseteq DOMAIN queues
    /\ DictKeys(agents) \cup DictKeys(services) \subseteq ConnectedKeys

(***************************************************************************)
(* The frames of concurrent outbound calls on the transport.               *)
(***************************************************************************)
\* the frames of a sequence of calls, one after the other
RECURSIVE Stream(_)
Stream(calls) ==
    IF calls = <<>> THEN <<>>
    ELSE Stream(Take(calls, Len(calls) - 1)) \o Frame(calls[Len(calls)].msg)

\* C40: the bytes on the transport are the frames of the calls in the order
\* the calls were made, each length prefix followed by its own payload; while
\* a call is between its two writes, they are the frames of the calls before
\* it followed by its length prefix.
C40_FramesContiguous ==
    IF \E t \in Tasks : tx_task[t].pc = "payload"
    THEN tx_bytes = Stream(Take(tx_calls, Len(tx_calls) - 1))
                        \o Pack(Len(tx_calls[Len(tx_calls)].msg))
    ELSE tx_bytes = Stream(tx_calls)

\* two tasks have each completed a call with a payload
C40_Witness ==
    /\ \A t \in Tasks : tx_task[t].pc = "idle"
    /\ \E i, j \in DOMAIN tx_calls :
          /\ i < j
          /\ tx_calls[i].task # tx_calls[j].task
          /\ tx_calls[i].msg # <<>>
          /\ tx_calls[j].msg # <<>>

====
